---- MODULE Spec2Model ----
(***************************************************************************)
(* HaloSitek-BE: the Design, PortfolioLink and Arsipedia services.         *)
(*                                                                         *)
(* The three services keep disjoint tables and share no in-process state,  *)
(* so each has a specification of its own over its own variables:          *)
(*   SpecDesign     DesignService        (design.service.js)               *)
(*   SpecCreate     createDesign with titles at the length limit           *)
(*   SpecLinks      PortfolioLinkService (portfolio-link.service.js)       *)
(*   SpecLinkStore  the four operations that write portfolio links         *)
(*   SpecArsipedia  ArsipediaService.create                                *)
(*   SpecEntries    ArsipediaService create, getById, update and delete    *)
(*   SpecEntryAdmins  create and update with every adminId                 *)
(*   SpecDesignFaults SpecDesign with repository writes that reject        *)
(*   SpecLinkRace   two createPortfolioLink calls in flight at once        *)
(* and the pure functions are applied to enumerated inputs under           *)
(*   SpecFormat     DesignService.formatDesignResponse                     *)
(*   SpecTags       normalizeTagsToJsonString                              *)
(*   SpecSearch     searchDesigns, by the service and by the controller    *)
(*   SpecController the try/catch of every controller handler              *)
(*                                                                         *)
(* A JavaScript string is a sequence of one-character strings, so that     *)
(* trim, split, length, JSON.parse and JSON.stringify are computed.        *)
(***************************************************************************)
EXTENDS Integers, Sequences, FiniteSets, TLC

VARIABLES
  designs,   \* design table: id -> row or NoRow
  disk,      \* paths of the uploaded files present on disk
  nextFile,  \* number of files uploaded so far (upload names are unique)
  dres,      \* the last DesignService call: arguments, outcome, collaborator calls
  links,     \* portfolio link table: id -> row or NoRow
  lres,      \* the last PortfolioLinkService call
  entries,   \* arsipedia table: id -> row or NoRow
  ares,      \* the last ArsipediaService call
  pin,       \* input of the pure function under SpecFormat / SpecTags
  pout       \* its output, Idle before it is applied

vars == <<designs, disk, nextFile, dres, links, lres, entries, ares, pin, pout>>

-----------------------------------------------------------------------------
(* Bounds of the model.                                                    *)

MaxDesigns == 1
MaxUploads == 2
MaxFiles == 1
MaxLinks == 2
MaxOrder == 2
MaxOrderedIds == 2
MaxEntries == 2
MaxTagLen == 3
MaxTagArr == 2
MaxFieldLen == 3

(* design.service.js:131  data.title.length > 200                          *)
MaxTitleLen == 200

-----------------------------------------------------------------------------
(* JavaScript values.                                                      *)

Undefined == [t |-> "undefined"]
Null == [t |-> "null"]
Bool(b) == [t |-> "bool", b |-> b]
Str(s) == [t |-> "str", s |-> s]
\* a number is kept as its decimal digits (non-negative integers only)
Num(n) == [t |-> "num", n |-> n]
Arr(a) == [t |-> "arr", a |-> a]
\* a plain object; its fields are never read by the code modelled here
Obj == [t |-> "obj"]

NoRow == [t |-> "norow"]
Idle == [t |-> "idle"]

\* characters
QUOTE == "\""
BSLASH == "\\"
\* the backspace control character (written \b inside a JSON string)
BS == "<BS>"
Digits == {"0", "1", "2", "3", "4", "5", "6", "7", "8", "9"}

\* the empty JSON array text, []
EmptyArrayText == <<"[", "]">>

\* ToBoolean
Truthy(v) ==
  CASE v.t = "undefined" -> FALSE
    [] v.t = "null" -> FALSE
    [] v.t = "bool" -> v.b
    [] v.t = "str" -> v.s # <<>>
    [] v.t = "num" -> v.n # <<"0">>
    [] OTHER -> TRUE

IsWs(c) == c = " "

\* String.prototype.trim: from the first to the last character that is not
\* white space
Trim(s) ==
  IF \A i \in 1..Len(s) : IsWs(s[i]) THEN <<>>
  ELSE SubSeq(s,
              CHOOSE i \in 1..Len(s) : ~IsWs(s[i]) /\ \A j \in 1..(i - 1) : IsWs(s[j]),
              CHOOSE i \in 1..Len(s) : ~IsWs(s[i]) /\ \A j \in (i + 1)..Len(s) : IsWs(s[j]))

\* String.prototype.split(sep) for a one-character separator:
\* cur is the piece being read, acc the pieces already closed
RECURSIVE SplitFrom(_, _, _, _)
SplitFrom(s, sep, cur, acc) ==
  IF s = <<>> THEN Append(acc, cur)
  ELSE IF Head(s) = sep THEN SplitFrom(Tail(s), sep, <<>>, Append(acc, cur))
  ELSE SplitFrom(Tail(s), sep, Append(cur, Head(s)), acc)

Split(s, sep) == SplitFrom(s, sep, <<>>, <<>>)

\* Array.prototype.map / filter over sequences
MapSeq(F(_), a) == [i \in 1..Len(a) |-> F(a[i])]

RECURSIVE FilterSeq(_, _)
FilterSeq(P(_), a) ==
  IF a = <<>> THEN <<>>
  ELSE IF P(Head(a)) THEN <<Head(a)>> \o FilterSeq(P, Tail(a))
  ELSE FilterSeq(P, Tail(a))

RECURSIVE Concat(_)
Concat(ss) == IF ss = <<>> THEN <<>> ELSE Head(ss) \o Concat(Tail(ss))

\* Array.prototype.join(sep) over sequences of strings
RECURSIVE Join(_, _)
Join(ss, sep) ==
  IF ss = <<>> THEN <<>>
  ELSE IF Len(ss) = 1 THEN ss[1]
  ELSE ss[1] \o sep \o Join(Tail(ss), sep)

\* String(v): the string conversion used by tags.map(String)
RECURSIVE ToStr(_)
ToStr(v) ==
  CASE v.t = "str" -> v.s
    [] v.t = "num" -> v.n
    [] v.t = "null" -> <<"n", "u", "l", "l">>
    [] v.t = "undefined" -> <<"u", "n", "d", "e", "f", "i", "n", "e", "d">>
    [] v.t = "bool" -> IF v.b THEN <<"t", "r", "u", "e">> ELSE <<"f", "a", "l", "s", "e">>
    [] v.t = "arr" ->
         \* Array.prototype.toString joins with "," and prints null/undefined as ""
         Join([i \in 1..Len(v.a) |->
                 IF v.a[i].t \in {"null", "undefined"} THEN <<>> ELSE ToStr(v.a[i])],
              <<",">>)
    [] OTHER -> <<"[", "o", "b", "j", "e", "c", "t", " ", "O", "b", "j", "e", "c", "t", "]">>

-----------------------------------------------------------------------------
(* JSON.parse, for the JSON texts made of white space, strings (with the   *)
(* escapes \" \\ \b), non-negative integers, null, true, false and arrays. *)
(* Any other text is a SyntaxError (ok = FALSE).                           *)

ParseFail == [ok |-> FALSE, val |-> Undefined, pos |-> 0]
ParseOk(v, p) == [ok |-> TRUE, val |-> v, pos |-> p]

RECURSIVE SkipWs(_, _)
SkipWs(s, i) == IF i <= Len(s) /\ IsWs(s[i]) THEN SkipWs(s, i + 1) ELSE i

\* the text after the opening quote, acc the characters read so far
RECURSIVE ParseStringBody(_, _, _)
ParseStringBody(s, i, acc) ==
  IF i > Len(s) THEN ParseFail
  ELSE IF s[i] = QUOTE THEN ParseOk(Str(acc), i + 1)
  ELSE IF s[i] = BSLASH THEN
    IF i + 1 > Len(s) THEN ParseFail
    ELSE IF s[i + 1] \in {QUOTE, BSLASH} THEN ParseStringBody(s, i + 2, Append(acc, s[i + 1]))
    ELSE IF s[i + 1] = "b" THEN ParseStringBody(s, i + 2, Append(acc, BS))
    ELSE ParseFail
  ELSE IF s[i] = BS THEN ParseFail
  ELSE ParseStringBody(s, i + 1, Append(acc, s[i]))

RECURSIVE DigitsEnd(_, _)
DigitsEnd(s, i) == IF i <= Len(s) /\ s[i] \in Digits THEN DigitsEnd(s, i + 1) ELSE i

\* 0 | [1-9][0-9]*
ParseNumber(s, i) ==
  LET e == IF s[i] = "0" THEN i + 1 ELSE DigitsEnd(s, i)
  IN ParseOk(Num(SubSeq(s, i, e - 1)), e)

MatchAt(s, i, w) == i + Len(w) - 1 <= Len(s) /\ SubSeq(s, i, i + Len(w) - 1) = w

RECURSIVE ParseValue(_, _), ParseElements(_, _, _)
ParseValue(s, i) ==
  LET j == SkipWs(s, i) IN
  IF j > Len(s) THEN ParseFail
  ELSE IF s[j] = QUOTE THEN ParseStringBody(s, j + 1, <<>>)
  ELSE IF s[j] \in Digits THEN ParseNumber(s, j)
  ELSE IF MatchAt(s, j, <<"n", "u", "l", "l">>) THEN ParseOk(Null, j + 4)
  ELSE IF MatchAt(s, j, <<"t", "r", "u", "e">>) THEN ParseOk(Bool(TRUE), j + 4)
  ELSE IF MatchAt(s, j, <<"f", "a", "l", "s", "e">>) THEN ParseOk(Bool(FALSE), j + 5)
  ELSE IF s[j] = "[" THEN
    LET k == SkipWs(s, j + 1) IN
    IF k <= Len(s) /\ s[k] = "]" THEN ParseOk(Arr(<<>>), k + 1)
    ELSE ParseElements(s, k, <<>>)
  ELSE ParseFail

ParseElements(s, i, acc) ==
  LET r == ParseValue(s, i) IN
  IF ~r.ok THEN ParseFail
  ELSE LET k == SkipWs(s, r.pos) IN
    IF k > Len(s) THEN ParseFail
    ELSE IF s[k] = "," THEN ParseElements(s, k + 1, Append(acc, r.val))
    ELSE IF s[k] = "]" THEN ParseOk(Arr(Append(acc, r.val)), k + 1)
    ELSE ParseFail

\* [ok |-> FALSE] is the SyntaxError
JSONParse(s) ==
  LET r == ParseValue(s, 1) IN
  IF r.ok /\ SkipWs(s, r.pos) > Len(s) THEN [ok |-> TRUE, val |-> r.val]
  ELSE [ok |-> FALSE, val |-> Undefined]

\* JSON.stringify
EscapeChar(c) ==
  IF c = QUOTE THEN <<BSLASH, QUOTE>>
  ELSE IF c = BSLASH THEN <<BSLASH, BSLASH>>
  ELSE IF c = BS THEN <<BSLASH, "b">>
  ELSE <<c>>

Quoted(s) == <<QUOTE>> \o Concat([i \in 1..Len(s) |-> EscapeChar(s[i])]) \o <<QUOTE>>

RECURSIVE JSONStringify(_)
JSONStringify(v) ==
  CASE v.t = "str" -> Quoted(v.s)
    [] v.t = "num" -> v.n
    [] v.t = "bool" -> ToStr(v)
    [] v.t = "arr" ->
         <<"[">> \o Join([i \in 1..Len(v.a) |-> JSONStringify(v.a[i])], <<",">>) \o <<"]">>
    [] v.t = "obj" -> <<"{", "}">>
    \* null, and undefined inside an array
    [] OTHER -> <<"n", "u", "l", "l">>

-----------------------------------------------------------------------------
(* DesignService: the pure helpers.                                        *)

\* DesignService.parseJsonArray: falsy -> [], SyntaxError -> [], else the parsed
\* value whatever its type.  JSON.parse converts its argument to a string first.
parseJsonArray(jsonString) ==
  IF ~Truthy(jsonString) THEN Arr(<<>>)
  ELSE LET p == JSONParse(ToStr(jsonString)) IN
       IF p.ok THEN p.val ELSE Arr(<<>>)

\* FileUploadHelper.getFileUrl: the public URL of a stored path
getFileUrl(path) == Str(<<"/">> \o ToStr(path))

\* x.map(f) exists only on arrays; on any other value the call is a TypeError
HasMap(v) == v.t = "arr"

\* DesignService.formatDesignResponse
formatDesignResponse(design) ==
  LET fotoBangunan == parseJsonArray(design.foto_bangunan)
      fotoDenah == parseJsonArray(design.foto_denah)
  IN IF ~HasMap(fotoBangunan) \/ ~HasMap(fotoDenah)
     THEN [err |-> "TypeError", val |-> Undefined]
     ELSE [err |-> "none",
           val |-> [id |-> design.id,
                    title |-> design.title,
                    kategori |-> design.kategori,
                    foto_bangunan |-> Arr(MapSeq(getFileUrl, fotoBangunan.a)),
                    foto_denah |-> Arr(MapSeq(getFileUrl, fotoDenah.a))]]

\* the slip of writing >= for > in the length test
validateDesignData_Ge(data) ==
  (IF ~Truthy(data.title) \/ Trim(data.title.s) = <<>>
     THEN <<[field |-> "title", message |-> "Title is required"]>>
     ELSE <<>>)
  \o
  (IF Truthy(data.title) /\ Len(data.title.s) >= MaxTitleLen
     THEN <<[field |-> "title", message |-> "Title must be less than 200 characters"]>>
     ELSE <<>>)

\* DesignService.validateDesignData: the errors it collects (it throws
\* ValidationError when there is one); data.title is undefined or a string
validateDesignData(data) ==
  (IF ~Truthy(data.title) \/ Trim(data.title.s) = <<>>
     THEN <<[field |-> "title", message |-> "Title is required"]>>
     ELSE <<>>)
  \o
  (IF Truthy(data.title) /\ Len(data.title.s) > MaxTitleLen
     THEN <<[field |-> "title", message |-> "Title must be less than 200 characters"]>>
     ELSE <<>>)

-----------------------------------------------------------------------------
(* ArsipediaService: normalizeTagsToJsonString.                            *)

NonEmpty(x) == x # <<>>
StrOf(x) == Str(x)
StringOf(v) == Str(ToStr(v))

\* the slip of leaving out .map((x) => x.trim())
commaSplitTags_NoTrim(s) == FilterSeq(NonEmpty, Split(s, ","))

\* s.split(",").map((x) => x.trim()).filter(Boolean)
commaSplitTags(s) == FilterSeq(NonEmpty, MapSeq(Trim, Split(s, ",")))

normalizeTagsToJsonString(tags) ==
  IF ~Truthy(tags) THEN EmptyArrayText
  ELSE IF tags.t = "arr" THEN JSONStringify(Arr(MapSeq(StringOf, tags.a)))
  ELSE IF tags.t = "str" THEN
    LET s == Trim(tags.s) IN
    IF s = <<>> THEN EmptyArrayText
    ELSE LET parsed == JSONParse(s) IN
      IF parsed.ok /\ parsed.val.t = "arr"
      THEN JSONStringify(Arr(MapSeq(StringOf, parsed.val.a)))
      ELSE JSONStringify(Arr(MapSeq(StrOf, commaSplitTags(s))))
  ELSE EmptyArrayText

-----------------------------------------------------------------------------
(* Initial state of the three tables.                                      *)

DesignIds == 1..MaxDesigns
LinkIds == 1..MaxLinks
EntryIds == 1..MaxEntries

NoCall == [op |-> "none"]

InitTables ==
  /\ designs = [d \in DesignIds |-> NoRow]
  /\ disk = {}
  /\ nextFile = 0
  /\ dres = NoCall
  /\ links = [l \in LinkIds |-> NoRow]
  /\ lres = NoCall
  /\ entries = [e \in EntryIds |-> NoRow]
  /\ ares = NoCall

tableVars == <<designs, disk, nextFile, dres, links, lres, entries, ares>>

SeqsUpTo(S, n) == UNION {[1..k -> S] : k \in 0..n}

-----------------------------------------------------------------------------
(* SpecTags: normalizeTagsToJsonString applied to one input.               *)

TagChars == {"[", "]", QUOTE, ",", " ", "a", "1", BSLASH}
TagElems == {Str(<<"x">>), Str(<<"y">>), Str(<<" ", "a">>), Str(<<QUOTE>>), Str(<<>>),
             Num(<<"1">>), Null, Arr(<<Num(<<"1">>), Str(<<"a">>)>>)}

\* "a, b , c"
TagsCommaExample == <<"a", ",", " ", "b", " ", ",", " ", "c">>
\* ["x","y"] as text
TagsJsonExample == <<"[", QUOTE, "x", QUOTE, ",", QUOTE, "y", QUOTE, "]">>
\* [1, null] as text, padded with blanks
TagsJsonMixedExample == <<" ", "[", "1", ",", " ", "n", "u", "l", "l", "]", " ">>

TagInputs ==
  {Undefined, Null, Num(<<"0">>), Num(<<"1">>), Bool(TRUE), Bool(FALSE), Obj}
  \cup {Str(s) : s \in SeqsUpTo(TagChars, MaxTagLen)}
  \cup {Str(TagsCommaExample), Str(TagsJsonExample), Str(TagsJsonMixedExample)}
  \cup {Arr(a) : a \in SeqsUpTo(TagElems, MaxTagArr)}

InitTags ==
  /\ InitTables
  /\ pin \in TagInputs
  /\ pout = Idle

ApplyNormalizeTags ==
  /\ pout = Idle
  /\ pout' = Str(normalizeTagsToJsonString(pin))
  /\ UNCHANGED <<tableVars, pin>>

NextTags == ApplyNormalizeTags

SpecTags == InitTags /\ [][NextTags]_vars

(* What the claims about normalizeTagsToJsonString expect, stated without   *)
(* the operators of the model: a piece is a maximal comma-free run.        *)

IsBlank(s) == \A i \in 1..Len(s) : s[i] = " "

RECURSIVE StripLeft(_)
StripLeft(s) == IF s # <<>> /\ Head(s) = " " THEN StripLeft(Tail(s)) ELSE s

RECURSIVE StripRight(_)
StripRight(s) ==
  IF s # <<>> /\ s[Len(s)] = " " THEN StripRight(SubSeq(s, 1, Len(s) - 1)) ELSE s

Stripped(s) == StripRight(StripLeft(s))

CommaCuts(s) == {0, Len(s) + 1} \cup {i \in 1..Len(s) : s[i] = ","}

CommaRuns(s) ==
  LET cuts == CommaCuts(s)
      nth(k) == CHOOSE c \in cuts : Cardinality({d \in cuts : d < c}) = k - 1
  IN [k \in 1..(Cardinality(cuts) - 1) |-> SubSeq(s, nth(k) + 1, nth(k + 1) - 1)]

NotBlank(s) == ~IsBlank(s)

ExpectedPieces(s) ==
  LET kept == SelectSeq(CommaRuns(s), NotBlank)
  IN [i \in 1..Len(kept) |-> Str(Stripped(kept[i]))]

AsStrings(a) == [i \in 1..Len(a) |-> Str(ToStr(a[i]))]

\* '["a","b","c"]' and '["x","y"]'
TextABC == <<"[", QUOTE, "a", QUOTE, ",", QUOTE, "b", QUOTE, ",", QUOTE, "c", QUOTE, "]">>
TextXY == <<"[", QUOTE, "x", QUOTE, ",", QUOTE, "y", QUOTE, "]">>

\* C8: normalizeTagsToJsonString returns the JSON text of an array of strings:
\* the elements of an array input as strings; the elements of a string input that
\* parses as a JSON array as strings; otherwise the trimmed non-empty comma
\* pieces of a non-blank string; and [] for an absent, empty, blank or
\* non-string non-array input.  "a, b , c" gives ["a","b","c"], the array
\* x,y gives ["x","y"], "" and undefined give [].
C8_TagsNormalized ==
  pout # Idle =>
    LET back == JSONParse(pout.s)
        parsed == JSONParse(Stripped(pin.s))
    IN /\ back.ok /\ back.val.t = "arr"
       /\ pin.t = "arr" => back.val.a = AsStrings(pin.a)
       /\ (pin.t = "str" /\ NotBlank(pin.s) /\ parsed.ok /\ parsed.val.t = "arr")
            => back.val.a = AsStrings(parsed.val.a)
       /\ (pin.t = "str" /\ NotBlank(pin.s) /\ ~(parsed.ok /\ parsed.val.t = "arr"))
            => back.val.a = ExpectedPieces(pin.s)
       /\ (pin.t \notin {"arr", "str"} \/ (pin.t = "str" /\ IsBlank(pin.s)))
            => pout.s = <<"[", "]">>
       /\ pin = Str(TagsCommaExample) => pout.s = TextABC
       /\ pin = Arr(<<Str(<<"x">>), Str(<<"y">>)>>) => pout.s = TextXY
       /\ pin \in {Str(<<>>), Undefined} => pout.s = <<"[", "]">>

\* the comma string "a, b , c" has been normalized
C8_Witness == pin = Str(TagsCommaExample) /\ pout = Str(TextABC)

-----------------------------------------------------------------------------
(* SpecFormat: formatDesignResponse applied to one design record whose      *)
(* photo fields hold any stored value: null, any short text, a JSON array.  *)

FieldChars == {"[", "]", QUOTE, ",", "p", "1"}

\* '["p","q"]'
TextPQ == <<"[", QUOTE, "p", QUOTE, ",", QUOTE, "q", QUOTE, "]">>

StoredFieldValues ==
  {Null, Str(TextPQ)} \cup {Str(s) : s \in SeqsUpTo(FieldChars, MaxFieldLen)}

StoredFieldSamples ==
  {Null, Str(<<>>), Str(<<"[">>), Str(<<"1">>), Str(<<"[", "]">>), Str(TextPQ)}

FormatRow(fb, fd) ==
  [id |-> 1, architectId |-> "A1", title |-> Str(<<"a">>), kategori |-> Null,
   foto_bangunan |-> fb, foto_denah |-> fd]

InitFormat ==
  /\ InitTables
  /\ \/ \E fb \in StoredFieldValues, fd \in StoredFieldSamples : pin = FormatRow(fb, fd)
     \/ \E fb \in StoredFieldSamples, fd \in StoredFieldValues : pin = FormatRow(fb, fd)
  /\ pout = Idle

ApplyFormatDesignResponse ==
  /\ pout = Idle
  /\ pout' = formatDesignResponse(pin)
  /\ UNCHANGED <<tableVars, pin>>

NextFormat == ApplyFormatDesignResponse

SpecFormat == InitFormat /\ [][NextFormat]_vars

\* the stored value is null, empty or no JSON text
NotJson(v) == v.t # "str" \/ v.s = <<>> \/ ~JSONParse(v.s).ok

\* C3: for every design record formatDesignResponse returns foto_bangunan and
\* foto_denah as arrays, and as the empty array when the stored field is null,
\* empty or not parseable as JSON.
C3_FormatReturnsArrays ==
  pout # Idle =>
    /\ pout.err = "none"
    /\ pout.val.foto_bangunan.t = "arr"
    /\ pout.val.foto_denah.t = "arr"
    /\ NotJson(pin.foto_bangunan) => pout.val.foto_bangunan = Arr(<<>>)
    /\ NotJson(pin.foto_denah) => pout.val.foto_denah = Arr(<<>>)

-----------------------------------------------------------------------------
(* SpecDesign: DesignService over the design table and the upload folder.   *)

\* architects that exist (architectRepository.findByIdOrFail succeeds), and the
\* ids a request may carry
Architects == {"A1", "A2"}
ArchitectIds == {"A1", "A2", "A3"}

Rep(c, n) == [i \in 1..n |-> c]

\* req.body.title: absent, empty, blank, short, of 199, 200 and 201
\* characters, and 201 blanks
TitleInputs ==
  {Undefined, Str(<<>>), Str(<<" ">>), Str(<<"a">>), Str(Rep("a", MaxTitleLen - 1)),
   Str(Rep("a", MaxTitleLen)),
   Str(Rep("a", MaxTitleLen + 1)), Str(Rep(" ", MaxTitleLen + 1))}

KategoriInputs == {Undefined}

\* the upload middleware names every stored file afresh
FileNames == <<"1", "2", "3", "4", "5", "6", "7", "8", "9">>
PathOf(n) == <<"f", FileNames[n]>>

\* the k files of one multipart field, uploaded after n earlier files
Uploaded(n, k) == [i \in 1..k |-> [path |-> Str(PathOf(n + i))]]
PathsOf(fileList) == {fileList[i].path.s : i \in 1..Len(fileList)}

FilePath(file) == file.path

\* the slip of serialising an empty list whatever was uploaded
PathsJson_Empty(fileList) == Str(<<"[", "]">>)

\* the slip of storing the paths joined by commas, as String(array) does
PathsJson_Joined(fileList) == Str(ToStr(Arr(MapSeq(FilePath, fileList))))

\* JSON.stringify(files.map(file => file.path))
PathsJson(fileList) == Str(JSONStringify(Arr(MapSeq(FilePath, fileList))))

DeleteFileCall(path) == [fn |-> "deleteFile", arg |-> path]

\* the slip of attempting no deletion at all
DeleteCalls_None(list) == <<>>

\* list.forEach(path => FileUploadHelper.deleteFile(path))
DeleteCalls(list) == MapSeq(DeleteFileCall, list.a)

\* the paths named by a sequence of deleteFile calls
DeletedPaths(calls) ==
  {ToStr(calls[i].arg) : i \in {j \in 1..Len(calls) : calls[j].fn = "deleteFile"}}

\* the slip of comparing nothing
updateNotOwner_Never(design, architectId) == FALSE

\* design.architectId !== architectId in updateDesign
updateNotOwner(design, architectId) == design.architectId # architectId

\* the slip of comparing nothing
deleteNotOwner_Never(design, architectId) == FALSE

\* design.architectId !== architectId in deleteDesign
deleteNotOwner(design, architectId) == design.architectId # architectId

\* Prisma update: a field that is undefined in data is left alone
Patched(row, data) ==
  [row EXCEPT
     !.title = IF data.title # Undefined THEN data.title ELSE @,
     !.kategori = IF data.kategori # Undefined THEN data.kategori ELSE @,
     !.foto_bangunan = IF data.foto_bangunan # Undefined THEN data.foto_bangunan ELSE @,
     !.foto_denah = IF data.foto_denah # Undefined THEN data.foto_denah ELSE @]

Failed(errName) == [err |-> errName, errors |-> <<>>, calls |-> <<>>, data |-> Undefined]

\* x || null
OrNull(v) == IF Truthy(v) THEN v ELSE Null

\* DesignService.createDesign up to the repository call
createDesign(architectId, designData, files) ==
  LET errors == validateDesignData(designData) IN
  IF errors # <<>> THEN [Failed("ValidationError") EXCEPT !.errors = errors]
  ELSE IF architectId \notin Architects THEN Failed("NotFoundError")
  ELSE LET data == [title |-> designData.title,
                    kategori |-> OrNull(designData.kategori),
                    foto_bangunan |-> PathsJson(files.foto_bangunan),
                    foto_denah |-> PathsJson(files.foto_denah)]
       IN [err |-> "none", errors |-> <<>>, data |-> data,
           calls |-> <<[fn |-> "createForArchitect", architectId |-> architectId, data |-> data]>>]

\* DesignService.updateDesign up to the repository call; design is the row
\* findByIdOrFail loaded, NoRow when there is none
updateDesign(design, designId, architectId, updateData, files) ==
  IF design = NoRow THEN Failed("NotFoundError")
  ELSE IF updateNotOwner(design, architectId) THEN Failed("AuthorizationError")
  ELSE LET errors == IF Truthy(updateData.title) THEN validateDesignData(updateData) ELSE <<>>
           oldFotoBangunan == parseJsonArray(design.foto_bangunan)
           oldFotoDenah == parseJsonArray(design.foto_denah)
           newBangunan == Len(files.foto_bangunan) > 0
           newDenah == Len(files.foto_denah) > 0
           data == [title |-> IF Truthy(updateData.title) THEN updateData.title ELSE Undefined,
                    kategori |-> updateData.kategori,
                    foto_bangunan |-> IF newBangunan THEN PathsJson(files.foto_bangunan) ELSE Undefined,
                    foto_denah |-> IF newDenah THEN PathsJson(files.foto_denah) ELSE Undefined]
       IN IF errors # <<>> THEN [Failed("ValidationError") EXCEPT !.errors = errors]
          ELSE IF newBangunan /\ ~HasMap(oldFotoBangunan) THEN Failed("TypeError")
          ELSE IF newDenah /\ ~HasMap(oldFotoDenah)
            THEN [Failed("TypeError") EXCEPT
                    !.calls = IF newBangunan THEN DeleteCalls(oldFotoBangunan) ELSE <<>>]
          ELSE [err |-> "none", errors |-> <<>>, data |-> data,
                calls |-> (IF newBangunan THEN DeleteCalls(oldFotoBangunan) ELSE <<>>)
                          \o (IF newDenah THEN DeleteCalls(oldFotoDenah) ELSE <<>>)
                          \o <<[fn |-> "updateDesign", id |-> designId, data |-> data]>>]

\* DesignService.deleteDesign up to the repository call
deleteDesign(design, designId, architectId) ==
  IF design = NoRow THEN Failed("NotFoundError")
  ELSE IF deleteNotOwner(design, architectId) THEN Failed("AuthorizationError")
  ELSE LET fotoBangunan == parseJsonArray(design.foto_bangunan)
           fotoDenah == parseJsonArray(design.foto_denah)
       IN IF ~HasMap(fotoBangunan) THEN Failed("TypeError")
          ELSE IF ~HasMap(fotoDenah)
            THEN [Failed("TypeError") EXCEPT !.calls = DeleteCalls(fotoBangunan)]
          ELSE [err |-> "none", errors |-> <<>>, data |-> Undefined,
                calls |-> DeleteCalls(fotoBangunan) \o DeleteCalls(fotoDenah)
                          \o <<[fn |-> "deleteDesign", id |-> designId]>>]

\* DesignService.adminUpdateDesign up to the repository call: no ownership
\* check, and the title is validated whenever it is not undefined
adminUpdateDesign(design, designId, updateData, files) ==
  IF design = NoRow THEN Failed("NotFoundError")
  ELSE LET errors == IF updateData.title # Undefined
                       THEN validateDesignData([title |-> updateData.title])
                       ELSE <<>>
           oldFotoBangunan == parseJsonArray(design.foto_bangunan)
           oldFotoDenah == parseJsonArray(design.foto_denah)
           newBangunan == Len(files.foto_bangunan) > 0
           newDenah == Len(files.foto_denah) > 0
           data == [title |-> updateData.title,
                    kategori |-> updateData.kategori,
                    foto_bangunan |-> IF newBangunan THEN PathsJson(files.foto_bangunan) ELSE Undefined,
                    foto_denah |-> IF newDenah THEN PathsJson(files.foto_denah) ELSE Undefined]
       IN IF errors # <<>> THEN [Failed("ValidationError") EXCEPT !.errors = errors]
          ELSE IF newBangunan /\ ~HasMap(oldFotoBangunan) THEN Failed("TypeError")
          ELSE IF newDenah /\ ~HasMap(oldFotoDenah)
            THEN [Failed("TypeError") EXCEPT
                    !.calls = IF newBangunan THEN DeleteCalls(oldFotoBangunan) ELSE <<>>]
          ELSE [err |-> "none", errors |-> <<>>, data |-> data,
                calls |-> (IF newBangunan THEN DeleteCalls(oldFotoBangunan) ELSE <<>>)
                          \o (IF newDenah THEN DeleteCalls(oldFotoDenah) ELSE <<>>)
                          \o <<[fn |-> "updateDesign", id |-> designId, data |-> data]>>]

\* DesignService.adminDeleteDesign up to the repository call
adminDeleteDesign(design, designId) ==
  IF design = NoRow THEN Failed("NotFoundError")
  ELSE LET fotoBangunan == parseJsonArray(design.foto_bangunan)
           fotoDenah == parseJsonArray(design.foto_denah)
       IN IF ~HasMap(fotoBangunan) THEN Failed("TypeError")
          ELSE IF ~HasMap(fotoDenah)
            THEN [Failed("TypeError") EXCEPT !.calls = DeleteCalls(fotoBangunan)]
          ELSE [err |-> "none", errors |-> <<>>, data |-> Undefined,
                calls |-> DeleteCalls(fotoBangunan) \o DeleteCalls(fotoDenah)
                          \o <<[fn |-> "deleteDesign", id |-> designId]>>]

\* the collaborators' effect on the table: the repository call, if it was made
Called(calls, fn) == \E i \in 1..Len(calls) : calls[i].fn = fn

FreeDesignIds == {d \in DesignIds : designs[d] = NoRow}

\* FileUploadHelper.deleteFile removes the file; a failure is logged, not
\* thrown, and leaves the file: kept is the set of paths whose removal failed
FilesAfter(files, calls, kept) == files \ (DeletedPaths(calls) \ kept)

\* one request: the upload middleware stores nb + nd files, then the service runs
CreateDesign(architectId, title, kategori, nb, nd) ==
  LET files == [foto_bangunan |-> Uploaded(nextFile, nb),
                foto_denah |-> Uploaded(nextFile + nb, nd)]
      designData == [title |-> title, kategori |-> kategori]
      out == createDesign(architectId, designData, files)
  IN /\ dres = NoCall
     /\ nextFile + nb + nd <= MaxUploads
     /\ out.err = "none" => FreeDesignIds # {}
     /\ nextFile' = nextFile + nb + nd
     /\ disk' = disk \cup PathsOf(files.foto_bangunan) \cup PathsOf(files.foto_denah)
     /\ LET id == IF out.err = "none"
                    THEN CHOOSE d \in FreeDesignIds : \A e \in FreeDesignIds : d <= e
                    ELSE 0
        IN /\ designs' = IF out.err = "none"
                           THEN [designs EXCEPT ![id] =
                                   [t |-> "row", id |-> id, architectId |-> architectId,
                                    title |-> out.data.title, kategori |-> out.data.kategori,
                                    foto_bangunan |-> out.data.foto_bangunan,
                                    foto_denah |-> out.data.foto_denah]]
                           ELSE designs
           /\ dres' = [op |-> "createDesign", designId |-> id, architectId |-> architectId,
                       title |-> title, files |-> files, design |-> NoRow,
                       err |-> out.err, errors |-> out.errors, calls |-> out.calls]
     /\ UNCHANGED <<links, lres, entries, ares, pin, pout>>

UpdateDesign(designId, architectId, title, kategori, nb, nd) ==
  LET files == [foto_bangunan |-> Uploaded(nextFile, nb),
                foto_denah |-> Uploaded(nextFile + nb, nd)]
      updateData == [title |-> title, kategori |-> kategori]
      design == designs[designId]
      out == updateDesign(design, designId, architectId, updateData, files)
      uploaded == disk \cup PathsOf(files.foto_bangunan) \cup PathsOf(files.foto_denah)
  IN /\ dres = NoCall
     /\ nextFile + nb + nd <= MaxUploads
     /\ nextFile' = nextFile + nb + nd
     /\ designs' = IF Called(out.calls, "updateDesign")
                     THEN [designs EXCEPT ![designId] = Patched(design, out.data)]
                     ELSE designs
     /\ \E kept \in SUBSET DeletedPaths(out.calls) :
          /\ disk' = FilesAfter(uploaded, out.calls, kept)
          /\ dres' = [op |-> "updateDesign", designId |-> designId,
                      architectId |-> architectId,
                      title |-> title, files |-> files, design |-> design,
                      err |-> out.err, errors |-> out.errors, calls |-> out.calls,
                      failed |-> kept]
     /\ UNCHANGED <<links, lres, entries, ares, pin, pout>>

DeleteDesign(designId, architectId) ==
  LET design == designs[designId]
      out == deleteDesign(design, designId, architectId)
  IN /\ dres = NoCall
     /\ designs' = IF Called(out.calls, "deleteDesign")
                     THEN [designs EXCEPT ![designId] = NoRow]
                     ELSE designs
     /\ \E kept \in SUBSET DeletedPaths(out.calls) :
          /\ disk' = FilesAfter(disk, out.calls, kept)
          /\ dres' = [op |-> "deleteDesign", designId |-> designId,
                      architectId |-> architectId,
                      title |-> Undefined,
                      files |-> [foto_bangunan |-> <<>>, foto_denah |-> <<>>],
                      design |-> design,
                      err |-> out.err, errors |-> out.errors, calls |-> out.calls,
                      failed |-> kept]
     /\ UNCHANGED <<nextFile, links, lres, entries, ares, pin, pout>>

\* the caller of the admin operations, who is no architect
AdminCaller == "ADMIN"

AdminUpdateDesign(designId, title, kategori, nb, nd) ==
  LET files == [foto_bangunan |-> Uploaded(nextFile, nb),
                foto_denah |-> Uploaded(nextFile + nb, nd)]
      updateData == [title |-> title, kategori |-> kategori]
      design == designs[designId]
      out == adminUpdateDesign(design, designId, updateData, files)
      uploaded == disk \cup PathsOf(files.foto_bangunan) \cup PathsOf(files.foto_denah)
  IN /\ dres = NoCall
     /\ nextFile + nb + nd <= MaxUploads
     /\ nextFile' = nextFile + nb + nd
     /\ designs' = IF Called(out.calls, "updateDesign")
                     THEN [designs EXCEPT ![designId] = Patched(design, out.data)]
                     ELSE designs
     /\ \E kept \in SUBSET DeletedPaths(out.calls) :
          /\ disk' = FilesAfter(uploaded, out.calls, kept)
          /\ dres' = [op |-> "adminUpdateDesign", designId |-> designId,
                      architectId |-> AdminCaller,
                      title |-> title, files |-> files, design |-> design,
                      err |-> out.err, errors |-> out.errors, calls |-> out.calls,
                      failed |-> kept]
     /\ UNCHANGED <<links, lres, entries, ares, pin, pout>>

AdminDeleteDesign(designId) ==
  LET design == designs[designId]
      out == adminDeleteDesign(design, designId)
  IN /\ dres = NoCall
     /\ designs' = IF Called(out.calls, "deleteDesign")
                     THEN [designs EXCEPT ![designId] = NoRow]
                     ELSE designs
     /\ \E kept \in SUBSET DeletedPaths(out.calls) :
          /\ disk' = FilesAfter(disk, out.calls, kept)
          /\ dres' = [op |-> "adminDeleteDesign", designId |-> designId,
                      architectId |-> AdminCaller,
                      title |-> Undefined,
                      files |-> [foto_bangunan |-> <<>>, foto_denah |-> <<>>],
                      design |-> design,
                      err |-> out.err, errors |-> out.errors, calls |-> out.calls,
                      failed |-> kept]
     /\ UNCHANGED <<nextFile, links, lres, entries, ares, pin, pout>>

\* DesignController: the response is sent, or the error handed to next, and
\* the request is over; requests are served one after the other
DesignRespond ==
  /\ dres # NoCall
  /\ dres' = NoCall
  /\ UNCHANGED <<designs, disk, nextFile, links, lres, entries, ares, pin, pout>>

InitDesign == InitTables /\ pin = Idle /\ pout = Idle

\* the titles of SpecDesign's requests: absent, empty, blank, valid
DesignTitles == {Undefined, Str(<<>>), Str(<<" ">>), Str(<<"a">>)}

\* the titles of its createDesign requests (SpecCreate goes through the rest)
CreateTitles == {Undefined, Str(<<"a">>)}

\* updateDesign and deleteDesign look at the caller's id only to compare it
\* with the row's, so the callers are the two architects who can own a row
NextDesign ==
  \/ \E a \in ArchitectIds, title \in CreateTitles, k \in KategoriInputs,
        nb \in 0..MaxFiles, nd \in 0..MaxFiles : CreateDesign(a, title, k, nb, nd)
  \/ \E d \in DesignIds, a \in Architects, title \in DesignTitles, k \in KategoriInputs,
        nb \in 0..MaxFiles, nd \in 0..MaxFiles : UpdateDesign(d, a, title, k, nb, nd)
  \/ \E d \in DesignIds, a \in Architects : DeleteDesign(d, a)
  \/ \E d \in DesignIds, title \in DesignTitles, k \in KategoriInputs,
        nb \in 0..MaxFiles, nd \in 0..MaxFiles : AdminUpdateDesign(d, title, k, nb, nd)
  \/ \E d \in DesignIds : AdminDeleteDesign(d)
  \/ DesignRespond

SpecDesign == InitDesign /\ [][NextDesign]_vars

\* C1: updateDesign on an existing design by a caller who is not its owner fails
\* with AuthorizationError, the repository update is not called and the stored
\* row is unchanged, whatever update data and files the request carries.
C1_NonOwnerUpdateRejected ==
  (dres.op = "updateDesign" /\ dres.design # NoRow
     /\ dres.design.architectId # dres.architectId)
  => /\ dres.err = "AuthorizationError"
     /\ \A i \in 1..Len(dres.calls) : dres.calls[i].fn # "updateDesign"
     /\ designs[dres.designId] = dres.design

\* a non-owner sent a valid title and new files for an existing design
C1_Witness ==
  /\ dres.op = "updateDesign" /\ dres.design # NoRow
  /\ dres.design.architectId # dres.architectId
  /\ dres.title = Str(<<"a">>)
  /\ Len(dres.files.foto_bangunan) > 0
  /\ dres.err = "AuthorizationError"

\* the paths a stored photo field names
StoredPaths(field) == JSONParse(field.s).val.a

\* C2: deleteDesign by a caller who is not the owner fails with
\* AuthorizationError, passes no file to deleteFile and leaves the row; by the
\* owner it passes every path of foto_bangunan, then of foto_denah, to
\* deleteFile and then deletes the row.
C2_DeleteByOwnerOnly ==
  (dres.op = "deleteDesign" /\ dres.design # NoRow)
  => IF dres.design.architectId # dres.architectId
     THEN /\ dres.err = "AuthorizationError"
          /\ dres.calls = <<>>
          /\ designs[dres.designId] = dres.design
     ELSE LET paths == StoredPaths(dres.design.foto_bangunan)
                       \o StoredPaths(dres.design.foto_denah)
          IN /\ dres.err = "none"
             /\ Len(dres.calls) = Len(paths) + 1
             /\ \A i \in 1..Len(paths) :
                  dres.calls[i] = [fn |-> "deleteFile", arg |-> paths[i]]
             /\ dres.calls[Len(paths) + 1] = [fn |-> "deleteDesign", id |-> dres.designId]
             /\ designs[dres.designId] = NoRow

\* the owner deleted a design that had a file in each photo field
C2_Witness ==
  /\ dres.op = "deleteDesign" /\ dres.design # NoRow
  /\ dres.design.architectId = dres.architectId
  /\ Len(StoredPaths(dres.design.foto_bangunan)) > 0
  /\ Len(StoredPaths(dres.design.foto_denah)) > 0
  /\ designs[dres.designId] = NoRow

-----------------------------------------------------------------------------
(* SpecCreate: createDesign alone, called without files (files = {}), with  *)
(* titles at the length limit.                                             *)

NextCreate ==
  \/ \E a \in ArchitectIds, title \in TitleInputs, k \in KategoriInputs :
        CreateDesign(a, title, k, 0, 0)
  \/ DesignRespond

SpecCreate == InitDesign /\ [][NextCreate]_vars

HasNonBlank(title) == title.t = "str" /\ \E i \in 1..Len(title.s) : title.s[i] # " "

\* C4: createDesign with a non-blank title passes validation exactly when the
\* title has at most 200 characters; a missing, empty or blank title fails
\* too; a validation failure cites the field title and nothing is persisted.
C4_TitleLengthLimit ==
  dres.op = "createDesign"
  => /\ HasNonBlank(dres.title)
          => (dres.err = "ValidationError" <=> Len(dres.title.s) > 200)
     /\ ~HasNonBlank(dres.title) => dres.err = "ValidationError"
     /\ dres.err = "ValidationError"
          => /\ dres.errors # <<>>
             /\ \A i \in 1..Len(dres.errors) : dres.errors[i].field = "title"
             /\ dres.calls = <<>>
             /\ \A d \in DesignIds : designs[d] # NoRow => designs[d].title # dres.title

\* a title of 201 characters was refused
C4_Witness ==
  /\ dres.op = "createDesign"
  /\ dres.title.t = "str" /\ Len(dres.title.s) = 201 /\ HasNonBlank(dres.title)
  /\ dres.err = "ValidationError"

-----------------------------------------------------------------------------
(* SpecLinks: PortfolioLinkService over the portfolio link table.          *)
(* The portfolio link repository, the architect repository's             *)
(* findByIdOrFail and ValidationHelper are collaborators described by the  *)
(* specification; the service's steps are those of its source.            *)

UrlA == <<"h", ":", "a">>
UrlUpperA == <<"h", ":", "A">>
UrlB == <<"h", ":", "b">>

\* req.body.url: absent, empty, blank, not a URL, and three URLs of which two
\* differ in case only
UrlInputs == {Undefined, Str(<<>>), Str(<<" ">>), Str(<<"a">>),
              Str(UrlA), Str(UrlUpperA), Str(UrlB)}

\* ValidationHelper.isValidUrl: a scheme, a colon and something after it
isValidUrl(url) == Len(url.s) > 2 /\ SubSeq(url.s, 1, 2) = <<"h", ":">>

\* PortfolioLinkService.validatePortfolioLinkData: the errors it collects (it
\* throws ValidationError when there is one); data.url is undefined or a string
validatePortfolioLinkData(data) ==
  IF ~Truthy(data.url) \/ Trim(data.url.s) = <<>>
    THEN <<[field |-> "url", message |-> "URL is required"]>>
    ELSE IF ~isValidUrl(data.url)
      THEN <<[field |-> "url", message |-> "Invalid URL format"]>>
      ELSE <<>>

\* portfolioLinkRepository.findByIdOrFail: the row, NoRow standing for the
\* NotFoundError it throws
findLinkByIdOrFail(table, id) == IF id \in DOMAIN table THEN table[id] ELSE NoRow

\* architectRepository.findByIdOrFail throws NotFoundError for these
architectMissing(architectId) == architectId \notin Architects

LinksOf(table, architectId) ==
  {l \in DOMAIN table : table[l] # NoRow /\ table[l].architectId = architectId}

\* portfolioLinkRepository.isUrlExists(architectId, url, excludeId): a link of
\* that architect, other than excludeId, holds exactly that url
isUrlExists(table, architectId, url, excludeId) ==
  \E l \in LinksOf(table, architectId) : table[l].url = url /\ l # excludeId

\* portfolioLinkRepository.getNextOrder: max(order) + 1, or 0 without links
getNextOrder(table, architectId) ==
  LET own == LinksOf(table, architectId) IN
  IF own = {} THEN 0
  ELSE LET top == CHOOSE l \in own : \A m \in own : table[m].order <= table[l].order
       IN table[top].order + 1

\* portfolioLinkRepository.reorder: order := index, one id after the other;
\* rows are the updated entities in the order of orderedIds
RECURSIVE reorderFrom(_, _, _)
reorderFrom(table, orderedIds, i) ==
  IF i > Len(orderedIds) THEN [table |-> table, rows |-> <<>>]
  ELSE LET id == orderedIds[i]
           updated == [table EXCEPT ![id] = [@ EXCEPT !.order = i - 1]]
           rest == reorderFrom(updated, orderedIds, i + 1)
       IN [table |-> rest.table, rows |-> <<updated[id]>> \o rest.rows]

reorder(table, orderedIds) == reorderFrom(table, orderedIds, 1)

\* PortfolioLinkService.formatPortfolioLinkResponse
formatPortfolioLinkResponse(portfolioLink) ==
  [id |-> portfolioLink.id, url |-> portfolioLink.url, order |-> portfolioLink.order]

NoId == 0

LinkFailed(errName, calls) ==
  [err |-> errName, errors |-> <<>>, calls |-> calls, data |-> Undefined]

\* the slip of leaving the duplicate test out
createUrlExists_Never(table, architectId, linkData) == FALSE

\* const urlExists = await portfolioLinkRepository.isUrlExists(architectId, linkData.url)
createUrlExists(table, architectId, linkData) ==
  isUrlExists(table, architectId, linkData.url, NoId)

\* the slip of numbering by the count of the architect's links
createNextOrder_Count(table, architectId) == Cardinality(LinksOf(table, architectId))

\* const nextOrder = await portfolioLinkRepository.getNextOrder(architectId)
createNextOrder(table, architectId) == getNextOrder(table, architectId)

\* PortfolioLinkService.createPortfolioLink up to the repository call
createPortfolioLink(table, architectId, linkData) ==
  LET errors == validatePortfolioLinkData(linkData) IN
  IF errors # <<>> THEN [LinkFailed("ValidationError", <<>>) EXCEPT !.errors = errors]
  ELSE IF architectMissing(architectId) THEN LinkFailed("NotFoundError", <<>>)
  ELSE IF createUrlExists(table, architectId, linkData)
    THEN LinkFailed("ConflictError", <<[fn |-> "isUrlExists"]>>)
  ELSE LET nextOrder == createNextOrder(table, architectId)
           data == [architectId |-> architectId, url |-> linkData.url, order |-> nextOrder]
       IN [err |-> "none", errors |-> <<>>, data |-> data,
           calls |-> <<[fn |-> "isUrlExists"], [fn |-> "getNextOrder"],
                       [fn |-> "createForArchitect"]>>]

\* the slip of comparing nothing
reorderNotOwner_Never(link, architectId) == FALSE

\* link.architectId !== architectId in reorderPortfolioLinks
reorderNotOwner(link, architectId) == link.architectId # architectId

\* the loop of reorderPortfolioLinks from index i on: the error of the first
\* id that fails, "none" when every id passes
RECURSIVE reorderCheck(_, _, _, _)
reorderCheck(table, architectId, orderedIds, i) ==
  IF i > Len(orderedIds) THEN "none"
  ELSE LET link == findLinkByIdOrFail(table, orderedIds[i]) IN
       IF link = NoRow THEN "NotFoundError"
       ELSE IF reorderNotOwner(link, architectId) THEN "AuthorizationError"
       ELSE reorderCheck(table, architectId, orderedIds, i + 1)

\* PortfolioLinkService.reorderPortfolioLinks up to the repository call
reorderPortfolioLinks(table, architectId, orderedIds) ==
  IF architectMissing(architectId) THEN LinkFailed("NotFoundError", <<>>)
  ELSE LET failure == reorderCheck(table, architectId, orderedIds, 1) IN
       IF failure # "none" THEN LinkFailed(failure, <<>>)
       ELSE [err |-> "none", errors |-> <<>>, data |-> Undefined,
             calls |-> <<[fn |-> "reorder"]>>]

\* link.architectId !== architectId in deletePortfolioLink
deleteLinkNotOwner(portfolioLink, architectId) == portfolioLink.architectId # architectId

\* PortfolioLinkService.deletePortfolioLink up to the repository call
deletePortfolioLink(table, linkId, architectId) ==
  LET portfolioLink == findLinkByIdOrFail(table, linkId) IN
  IF portfolioLink = NoRow THEN LinkFailed("NotFoundError", <<>>)
  ELSE IF deleteLinkNotOwner(portfolioLink, architectId)
    THEN LinkFailed("AuthorizationError", <<>>)
  ELSE [err |-> "none", errors |-> <<>>, data |-> Undefined,
        calls |-> <<[fn |-> "deletePortfolioLink"]>>]

\* the slip of comparing nothing
updateLinkNotOwner_Never(portfolioLink, architectId) == FALSE

\* portfolioLink.architectId !== architectId in updatePortfolioLink
updateLinkNotOwner(portfolioLink, architectId) == portfolioLink.architectId # architectId

\* the slip of leaving the duplicate test out
updateUrlExists_Never(table, architectId, updateData, linkId) == FALSE

\* isUrlExists(architectId, updateData.url, linkId) in updatePortfolioLink
updateUrlExists(table, architectId, updateData, linkId) ==
  isUrlExists(table, architectId, updateData.url, linkId)

DecimalDigits == <<"0", "1", "2", "3", "4", "5", "6", "7", "8", "9">>
DigitValue(c) == (CHOOSE n \in 1..10 : DecimalDigits[n] = c) - 1
IsDecimalDigit(c) == \E n \in 1..10 : DecimalDigits[n] = c
NaN == [t |-> "nan"]
Int32(n) == [t |-> "int", n |-> n]

\* the value of the digits s[i..], after the digits seen so far gave acc
RECURSIVE parseDigits(_, _, _)
parseDigits(s, i, acc) ==
  IF i > Len(s) \/ ~IsDecimalDigit(s[i]) THEN acc
  ELSE parseDigits(s, i + 1, acc * 10 + DigitValue(s[i]))

\* parseInt of a string or number without a sign: the leading digits after
\* leading blanks, NaN when there is none
parseInt(v) ==
  LET s == Trim(ToStr(v)) IN
  IF s = <<>> \/ ~IsDecimalDigit(s[1]) THEN NaN ELSE Int32(parseDigits(s, 1, 0))

\* PortfolioLinkService.updatePortfolioLink up to the repository call
updatePortfolioLink(table, linkId, architectId, updateData) ==
  LET portfolioLink == findLinkByIdOrFail(table, linkId)
      errors == IF Truthy(updateData.url)
                  THEN validatePortfolioLinkData([url |-> updateData.url])
                  ELSE <<>>
      urlCalls == IF Truthy(updateData.url) THEN <<[fn |-> "isUrlExists"]>> ELSE <<>>
      data == [url |-> IF Truthy(updateData.url) THEN updateData.url ELSE Undefined,
               order |-> IF updateData.order # Undefined
                           THEN parseInt(updateData.order) ELSE Undefined]
  IN IF portfolioLink = NoRow THEN LinkFailed("NotFoundError", <<>>)
     ELSE IF updateLinkNotOwner(portfolioLink, architectId)
       THEN LinkFailed("AuthorizationError", <<>>)
     ELSE IF errors # <<>>
       THEN [LinkFailed("ValidationError", <<>>) EXCEPT !.errors = errors]
     ELSE IF Truthy(updateData.url) /\ updateUrlExists(table, architectId, updateData, linkId)
       THEN LinkFailed("ConflictError", urlCalls)
     ELSE [err |-> "none", errors |-> <<>>, data |-> data,
           calls |-> urlCalls \o <<[fn |-> "updatePortfolioLink"]>>]

\* portfolioLinkRepository.updatePortfolioLink: the fields of data that are
\* not undefined replace the row's
PatchedLink(row, data) ==
  [row EXCEPT !.url = IF data.url = Undefined THEN @ ELSE data.url,
              !.order = IF data.order = Undefined THEN @ ELSE data.order.n]

FreeLinkIds == {l \in LinkIds : links[l] = NoRow}

LinkCall(op, architectId, url, linkId, orderedIds, out, result) ==
  [op |-> op, architectId |-> architectId, url |-> url, linkId |-> linkId,
   orderedIds |-> orderedIds, before |-> links,
   err |-> out.err, errors |-> out.errors, calls |-> out.calls, result |-> result]

CreatePortfolioLink(architectId, url) ==
  LET out == createPortfolioLink(links, architectId, [url |-> url])
      made == Called(out.calls, "createForArchitect")
  IN /\ lres = NoCall
     /\ made => FreeLinkIds # {} /\ out.data.order <= MaxOrder
     /\ LET id == IF made
                    THEN CHOOSE l \in FreeLinkIds : \A m \in FreeLinkIds : l <= m
                    ELSE NoId
            row == IF made
                     THEN [t |-> "link", id |-> id, architectId |-> out.data.architectId,
                           url |-> out.data.url, order |-> out.data.order]
                     ELSE NoRow
        IN /\ links' = IF made THEN [links EXCEPT ![id] = row] ELSE links
           /\ lres' = LinkCall("createPortfolioLink", architectId, url, id, <<>>, out,
                               IF made THEN <<formatPortfolioLinkResponse(row)>> ELSE <<>>)
     /\ UNCHANGED <<designs, disk, nextFile, dres, entries, ares, pin, pout>>

ReorderPortfolioLinks(architectId, orderedIds) ==
  LET out == reorderPortfolioLinks(links, architectId, orderedIds)
      made == Called(out.calls, "reorder")
      reordered == IF made THEN reorder(links, orderedIds)
                   ELSE [table |-> links, rows |-> <<>>]
  IN /\ lres = NoCall
     /\ links' = reordered.table
     /\ lres' = LinkCall("reorderPortfolioLinks", architectId, Undefined, NoId, orderedIds,
                         out, MapSeq(formatPortfolioLinkResponse, reordered.rows))
     /\ UNCHANGED <<designs, disk, nextFile, dres, entries, ares, pin, pout>>

UpdatePortfolioLink(linkId, architectId, url, order) ==
  LET out == updatePortfolioLink(links, linkId, architectId, [url |-> url, order |-> order])
      made == Called(out.calls, "updatePortfolioLink")
      row == IF made THEN PatchedLink(links[linkId], out.data) ELSE NoRow
  IN /\ lres = NoCall
     /\ (made /\ out.data.order # Undefined)
          => out.data.order # NaN /\ out.data.order.n <= MaxOrder
     /\ links' = IF made THEN [links EXCEPT ![linkId] = row] ELSE links
     /\ lres' = LinkCall("updatePortfolioLink", architectId, url, linkId, <<>>, out,
                         IF made THEN <<formatPortfolioLinkResponse(row)>> ELSE <<>>)
     /\ UNCHANGED <<designs, disk, nextFile, dres, entries, ares, pin, pout>>

DeletePortfolioLink(linkId, architectId) ==
  LET out == deletePortfolioLink(links, linkId, architectId)
  IN /\ lres = NoCall
     /\ links' = IF Called(out.calls, "deletePortfolioLink")
                   THEN [links EXCEPT ![linkId] = NoRow]
                   ELSE links
     /\ lres' = LinkCall("deletePortfolioLink", architectId, Undefined, linkId, <<>>,
                         out, <<>>)
     /\ UNCHANGED <<designs, disk, nextFile, dres, entries, ares, pin, pout>>

\* PortfolioLinkController: the response is sent, or the error handed to
\* next, and the request is over
LinkRespond ==
  /\ lres # NoCall
  /\ lres' = NoCall
  /\ UNCHANGED <<designs, disk, nextFile, dres, links, entries, ares, pin, pout>>

InitLinks == InitTables /\ pin = Idle /\ pout = Idle

\* req.body.order of an update: absent, or a position as the form sends it
OrderInputs == {Undefined, Str(<<"1">>)}

NextLinks ==
  \/ \E a \in ArchitectIds, url \in UrlInputs : CreatePortfolioLink(a, url)
  \/ \E a \in ArchitectIds, ids \in SeqsUpTo(LinkIds, MaxOrderedIds) :
        ReorderPortfolioLinks(a, ids)
  \/ \E l \in LinkIds, a \in ArchitectIds : DeletePortfolioLink(l, a)
  \/ LinkRespond

SpecLinks == InitLinks /\ [][NextLinks]_vars

\* some link of the architect holds exactly that url
HoldsUrl(table, architectId, url) ==
  \E l \in DOMAIN table :
     table[l] # NoRow /\ table[l].architectId = architectId /\ table[l].url = url

\* C5: createPortfolioLink with a url that a link of the same architect
\* already holds fails with ConflictError, calls no createForArchitect and
\* leaves the table as it was; with a url held only by another architect, an
\* existing architect's call succeeds and adds exactly one link, carrying that
\* architect and that url.
C5_DuplicateUrlConflict ==
  lres.op = "createPortfolioLink" =>
    /\ HoldsUrl(lres.before, lres.architectId, lres.url) =>
         /\ lres.err = "ConflictError"
         /\ ~Called(lres.calls, "createForArchitect")
         /\ links = lres.before
    /\ (/\ lres.architectId \in Architects
        /\ ~HoldsUrl(lres.before, lres.architectId, lres.url)
        /\ \E other \in Architects \ {lres.architectId} :
              HoldsUrl(lres.before, other, lres.url))
       => /\ lres.err = "none"
          /\ lres.linkId \in LinkIds
          /\ lres.before[lres.linkId] = NoRow
          /\ links[lres.linkId] # NoRow
          /\ links[lres.linkId].architectId = lres.architectId
          /\ links[lres.linkId].url = lres.url
          /\ \A l \in LinkIds \ {lres.linkId} : links[l] = lres.before[l]

\* a link was created with a url that another architect's link holds
C5_Witness ==
  /\ lres.op = "createPortfolioLink"
  /\ lres.err = "none"
  /\ \E other \in Architects \ {lres.architectId} :
        HoldsUrl(lres.before, other, lres.url)
  /\ HoldsUrl(links, lres.architectId, lres.url)

\* C6: after a successful reorderPortfolioLinks(architectId, orderedIds) the
\* link at zero-based index i of orderedIds has order i, and the returned
\* sequence lists the links in the order of orderedIds.
C6_ReorderAssignsIndex ==
  (lres.op = "reorderPortfolioLinks" /\ lres.err = "none") =>
    /\ Len(lres.result) = Len(lres.orderedIds)
    /\ \A i \in 1..Len(lres.orderedIds) :
          /\ links[lres.orderedIds[i]].order = i - 1
          /\ lres.result[i].id = lres.orderedIds[i]

\* the id at index i names no link, or a link of another architect
FailsOwnership(i) ==
  LET row == lres.before[lres.orderedIds[i]] IN
  row = NoRow \/ row.architectId # lres.architectId

SomeIdFails == \E i \in 1..Len(lres.orderedIds) : FailsOwnership(i)

FirstFailing ==
  CHOOSE i \in 1..Len(lres.orderedIds) :
     FailsOwnership(i) /\ \A j \in 1..(i - 1) : ~FailsOwnership(j)

\* C7 as stated: reorderPortfolioLinks fails with AuthorizationError whenever
\* an id of orderedIds names no link or a link of another architect; the
\* repository's reorder is not called and no order changes.
C7_ReorderAlwaysAuthorizationError ==
  (lres.op = "reorderPortfolioLinks" /\ SomeIdFails) =>
    /\ lres.err = "AuthorizationError"
    /\ ~Called(lres.calls, "reorder")
    /\ links = lres.before

\* C7, amended: when an id of orderedIds names no link or a link of another
\* architect, reorderPortfolioLinks fails, the repository's reorder is not
\* called and no order changes; the error is AuthorizationError when the
\* architect exists and the first such id names another architect's link, and
\* NotFoundError when the architect does not exist or that id names no link.
C7_ReorderRejectsForeignIds ==
  (lres.op = "reorderPortfolioLinks" /\ SomeIdFails) =>
    /\ lres.err = IF lres.architectId \notin Architects THEN "NotFoundError"
                  ELSE IF lres.before[lres.orderedIds[FirstFailing]] = NoRow
                    THEN "NotFoundError"
                    ELSE "AuthorizationError"
    /\ ~Called(lres.calls, "reorder")
    /\ links = lres.before

\* an existing architect's reorder named one own link and then a link of
\* another architect, and was refused
C7_Witness ==
  /\ lres.op = "reorderPortfolioLinks"
  /\ lres.architectId \in Architects
  /\ Len(lres.orderedIds) = 2
  /\ ~FailsOwnership(1)
  /\ lres.before[lres.orderedIds[2]] # NoRow
  /\ FailsOwnership(2)
  /\ lres.err = "AuthorizationError"

-----------------------------------------------------------------------------
(* SpecArsipedia: ArsipediaService.create over the arsipedia table.        *)
(* The arsipedia repository is a collaborator described by the            *)
(* specification and by the service's tests.                               *)

Admins == {Str(<<"1">>), Str(<<"2">>)}

\* data.adminId: absent, two admins, an id no admin has
AdminIdInputs == {Undefined, Str(<<"1">>), Str(<<"2">>), Str(<<"9">>)}

\* data.imagePath: absent, null, empty, and two stored paths
ImagePathInputs == {Undefined, Null, Str(<<>>), Str(<<"/", "a">>), Str(<<"/", "b">>)}

\* data.tags: absent, a comma-separated string, an array, a JSON string, a
\* number
CreateTagInputs ==
  {Undefined, Str(<<"a", ",", " ", "b">>), Arr(<<Str(<<"x">>)>>),
   Str(<<"[", QUOTE, "x", QUOTE, "]">>), Num(<<"1">>)}

TitleJudul == Str(<<"J", "u", "d", "u", "l">>)

\* ArsipediaRepository.isAdminExist: the admin, or null
isAdminExist(adminId) == IF adminId \in Admins THEN Obj ELSE Null

NoError == [statusCode |-> 0, message |-> ""]

HttpError(statusCode, message) == [statusCode |-> statusCode, message |-> message]

\* the slip of never rejecting the admin
createAdminMissing_Never(admin) == FALSE

\* !admin in create
createAdminMissing(admin) == ~Truthy(admin)

\* the slip of testing imagePath === null only
createImageMissing_NullOnly(imagePath) == imagePath = Null

\* !imagePath in create
createImageMissing(imagePath) == ~Truthy(imagePath)

\* the slip of handing data.tags on as it came
createTags_Raw(data) == data.tags

\* data.tags = normalizeTagsToJsonString(data.tags) in create
createTags(data) == Str(normalizeTagsToJsonString(data.tags))

\* ArsipediaService.create up to the repository call
create(data) ==
  LET adminId == data.adminId
      imagePath == data.imagePath
      admin == isAdminExist(adminId)
      asked == <<[fn |-> "isAdminExist", arg |-> adminId]>>
  IN IF createAdminMissing(admin)
       THEN [err |-> HttpError(400, "Invalid adminId: Admin not found"),
             calls |-> asked, data |-> data]
     ELSE IF createImageMissing(imagePath)
       THEN [err |-> HttpError(400, "Image is required"), calls |-> asked, data |-> data]
     ELSE LET payload == [data EXCEPT !.tags = createTags(data)]
          IN [err |-> NoError, data |-> payload,
              calls |-> asked \o <<[fn |-> "create", arg |-> payload]>>]

FreeEntryIds == {e \in EntryIds : entries[e] = NoRow}

\* String(existing.imagePath).replace(/\\/g, "/")
ReplaceBackslashes(s) == [i \in 1..Len(s) |-> IF s[i] = BSLASH THEN "/" ELSE s[i]]

\* process.cwd()
Cwd == <<"/", "w">>

\* path.resolve(process.cwd(), normalized), for paths without . and .. segments
PathResolve(normalized) ==
  IF normalized # <<>> /\ normalized[1] = "/" THEN normalized
  ELSE Cwd \o <<"/">> \o normalized

\* one create request; ArsipediaRepository.create stores the payload as a new
\* row.  The upload middleware has put the image where imagePath says, unless
\* the file is gone by now (stored = FALSE)
ArsipediaCreate(adminId, imagePath, tags, stored) ==
  LET data == [adminId |-> adminId, title |-> TitleJudul, imagePath |-> imagePath,
               tags |-> tags]
      out == create(data)
      made == Called(out.calls, "create")
  IN /\ ares = NoCall
     /\ made => FreeEntryIds # {}
     /\ LET id == IF made
                    THEN CHOOSE e \in FreeEntryIds : \A f \in FreeEntryIds : e <= f
                    ELSE NoId
            created == IF made
                         THEN [t |-> "entry", id |-> id, adminId |-> out.data.adminId,
                               title |-> out.data.title,
                               imagePath |-> out.data.imagePath,
                               tags |-> out.data.tags]
                         ELSE NoRow
        IN /\ entries' = IF made THEN [entries EXCEPT ![id] = created] ELSE entries
           /\ ares' = [op |-> "create", id |-> id, adminId |-> adminId,
                       imagePath |-> imagePath, tags |-> tags, data |-> data,
                       before |-> entries, diskBefore |-> disk,
                       err |-> out.err, calls |-> out.calls, result |-> created]
     /\ disk' = IF stored /\ Truthy(imagePath)
                 THEN disk \cup {PathResolve(ReplaceBackslashes(ToStr(imagePath)))}
                 ELSE disk
     /\ UNCHANGED <<designs, nextFile, dres, links, lres, pin, pout>>

\* the controller answers, or hands the error to next, and the request is over
ArsipediaRespond ==
  /\ ares # NoCall
  /\ ares' = NoCall
  /\ UNCHANGED <<designs, disk, nextFile, dres, links, lres, entries, pin, pout>>

InitArsipedia == InitTables /\ pin = Idle /\ pout = Idle

NextArsipedia ==
  \/ \E adminId \in AdminIdInputs, imagePath \in ImagePathInputs,
        tags \in CreateTagInputs, stored \in BOOLEAN :
          ArsipediaCreate(adminId, imagePath, tags, stored)
  \/ ArsipediaRespond

SpecArsipedia == InitArsipedia /\ [][NextArsipedia]_vars

\* C9: create with an adminId that no admin has fails with statusCode 400 and
\* message 'Invalid adminId: Admin not found', whatever the imagePath, without
\* calling the repository's create and without storing an entry.
C9_UnknownAdminRejected ==
  (ares.op = "create" /\ ares.adminId \notin Admins) =>
    /\ ares.err = HttpError(400, "Invalid adminId: Admin not found")
    /\ ~Called(ares.calls, "create")
    /\ Called(ares.calls, "isAdminExist")
    /\ entries = ares.before

\* create was refused for an unknown admin although an imagePath was given
C9_Witness ==
  /\ ares.op = "create"
  /\ ares.adminId = Str(<<"9">>)
  /\ ares.imagePath = Str(<<"/", "a">>)
  /\ ares.err.statusCode = 400

\* C10: create with an existing admin and an imagePath that is null, undefined
\* or the empty string fails with statusCode 400 and message 'Image is
\* required' without calling the repository's create; and an entry that create
\* stores has a non-empty imagePath.
C10_ImageRequired ==
  ares.op = "create" =>
    /\ (ares.adminId \in Admins /\ ares.imagePath \in {Null, Undefined, Str(<<>>)}) =>
         /\ ares.err = HttpError(400, "Image is required")
         /\ ~Called(ares.calls, "create")
         /\ entries = ares.before
    /\ Called(ares.calls, "create") =>
         /\ ares.id \in EntryIds
         /\ entries[ares.id] # NoRow
         /\ entries[ares.id].imagePath.t = "str"
         /\ Len(entries[ares.id].imagePath.s) > 0

\* create was refused for an existing admin who sent the empty string as
\* imagePath, after an entry had been stored
C10_Witness ==
  /\ ares.op = "create"
  /\ ares.adminId \in Admins
  /\ ares.imagePath = Str(<<>>)
  /\ ares.err = HttpError(400, "Image is required")
  /\ \E e \in EntryIds : entries[e] # NoRow

\* the calls made to fn, in order
CallsTo(calls, fn) == SelectSeq(calls, LAMBDA c : c.fn = fn)

\* C11: create with an existing admin and a present imagePath calls the
\* repository's create exactly once, with the caller's payload in which tags is
\* the normalized JSON array string ("[]" when no tags were supplied) and
\* nothing else differs, and returns the record the repository created.
C11_CreateForwardsPayload ==
  (ares.op = "create" /\ ares.adminId \in Admins /\ Truthy(ares.imagePath)) =>
    LET made == CallsTo(ares.calls, "create") IN
    /\ ares.err = NoError
    /\ Len(made) = 1
    /\ made[1].arg = [ares.data EXCEPT !.tags = Str(normalizeTagsToJsonString(ares.tags))]
    /\ ares.tags = Undefined => made[1].arg.tags = Str(<<"[", "]">>)
    /\ JSONParse(made[1].arg.tags.s).ok
    /\ JSONParse(made[1].arg.tags.s).val.t = "arr"
    /\ ares.result # NoRow
    /\ ares.result = entries[ares.id]
    /\ ares.before[ares.id] = NoRow

\* create stored an entry for admin 1 with image /a and no tags
C11_Witness ==
  /\ ares.op = "create"
  /\ ares.adminId = Str(<<"1">>)
  /\ ares.imagePath = Str(<<"/", "a">>)
  /\ ares.tags = Undefined
  /\ ares.result # NoRow
  /\ ares.result.tags = Str(<<"[", "]">>)

-----------------------------------------------------------------------------
(* SpecEntries: ArsipediaService getById, update and delete over entries   *)
(* that create has stored.                                                 *)

NotFound404 == HttpError(404, "Arsipedia entry not found")

\* ArsipediaRepository.getById: the entry, or null
repositoryGetById(table, id) ==
  IF id \in DOMAIN table /\ table[id] # NoRow THEN table[id] ELSE Null

\* the slip of never rejecting a missing entry
getByIdMissing_Never(data) == FALSE

\* !data in getById
getByIdMissing(data) == ~Truthy(data)

\* ArsipediaService.getById
getById(table, id) ==
  LET data == repositoryGetById(table, id)
      asked == <<[fn |-> "getById", arg |-> id]>>
  IN IF getByIdMissing(data)
       THEN [err |-> NotFound404, calls |-> asked, result |-> Undefined]
       ELSE [err |-> NoError, calls |-> asked, result |-> data]

\* the slip of handing data.tags on as it came
updateTags_Raw(data) == data.tags

\* data.tags = normalizeTagsToJsonString(data.tags) in update
updateTags(data) == Str(normalizeTagsToJsonString(data.tags))

\* ArsipediaService.update up to the repository call
update(table, id, data) ==
  LET found == getById(table, id) IN
  IF found.err # NoError THEN found
  ELSE LET payload == [data EXCEPT !.tags = updateTags(data)]
       IN [err |-> NoError, result |-> Undefined,
           calls |-> found.calls \o <<[fn |-> "update", id |-> id, arg |-> payload]>>]

\* the catch around existsSync and unlinkSync lets the error go
removeFileError_Thrown(threw) == IF threw THEN HttpError(500, "EPERM") ELSE NoError

\* catch (err) { console.warn(...) }: a filesystem error ends in the catch
removeFileError(threw) == NoError

\* existing?.imagePath
imagePathOf(existing) == IF existing \in {Null, Undefined} THEN Undefined ELSE existing.imagePath

\* ArsipediaService.delete (remove) up to the repository call; files are the
\* paths present on disk, threw tells whether unlinkSync raises an error
remove(table, files, id, threw) ==
  LET found == getById(table, id) IN
  IF found.err # NoError THEN found
  ELSE LET existing == found.result
           normalized == ReplaceBackslashes(ToStr(imagePathOf(existing)))
           absPath == PathResolve(normalized)
           fsCalls == IF ~Truthy(imagePathOf(existing)) THEN <<>>
                      ELSE IF absPath \notin files
                        THEN <<[fn |-> "existsSync", arg |-> absPath]>>
                        ELSE <<[fn |-> "existsSync", arg |-> absPath],
                               [fn |-> "unlinkSync", arg |-> absPath, threw |-> threw]>>
           fileError == IF Called(fsCalls, "unlinkSync") THEN removeFileError(threw)
                        ELSE NoError
       IN IF fileError # NoError
            THEN [err |-> fileError, calls |-> found.calls \o fsCalls, result |-> Undefined]
            ELSE [err |-> NoError, result |-> Undefined,
                  calls |-> found.calls \o fsCalls \o <<[fn |-> "delete", arg |-> id]>>]

\* ArsipediaRepository.update: a field that is undefined in data is left alone
PatchedEntry(row, data) ==
  [row EXCEPT
     !.title = IF data.title # Undefined THEN data.title ELSE @,
     !.tags = IF data.tags # Undefined THEN data.tags ELSE @,
     !.adminId = IF data.adminId # Undefined THEN data.adminId ELSE @]

\* the files left after the unlinkSync calls that did not raise an error
Unlinked(files, calls) ==
  files \ {calls[i].arg : i \in {j \in 1..Len(calls) :
                                   calls[j].fn = "unlinkSync" /\ ~calls[j].threw}}

EntryCall(op, id, data, out, result) ==
  [op |-> op, id |-> id, adminId |-> data.adminId, imagePath |-> Undefined,
   tags |-> data.tags, data |-> data, before |-> entries, diskBefore |-> disk,
   err |-> out.err, calls |-> out.calls, result |-> result]

NoData == [title |-> Undefined, tags |-> Undefined, adminId |-> Undefined]

ArsipediaGetById(id) ==
  LET out == getById(entries, id)
  IN /\ ares = NoCall
     /\ ares' = EntryCall("getById", id, NoData, out, out.result)
     /\ UNCHANGED <<designs, disk, nextFile, dres, links, lres, entries, pin, pout>>

ArsipediaUpdate(id, title, tags, adminId) ==
  LET data == [title |-> title, tags |-> tags, adminId |-> adminId]
      out == update(entries, id, data)
      made == Called(out.calls, "update") /\ entries[id] # NoRow
      updated == IF made THEN PatchedEntry(entries[id], CallsTo(out.calls, "update")[1].arg)
                 ELSE NoRow
  IN /\ ares = NoCall
     /\ entries' = IF made THEN [entries EXCEPT ![id] = updated] ELSE entries
     /\ ares' = EntryCall("update", id, data, out, IF made THEN updated ELSE Undefined)
     /\ UNCHANGED <<designs, disk, nextFile, dres, links, lres, pin, pout>>

ArsipediaDelete(id, threw) ==
  LET out == remove(entries, disk, id, threw)
      made == Called(out.calls, "delete") /\ entries[id] # NoRow
  IN /\ ares = NoCall
     /\ threw => Called(out.calls, "unlinkSync")
     /\ disk' = Unlinked(disk, out.calls)
     /\ entries' = IF made THEN [entries EXCEPT ![id] = NoRow] ELSE entries
     /\ ares' = EntryCall("delete", id, NoData, out, IF made THEN entries[id] ELSE Undefined)
     /\ UNCHANGED <<designs, nextFile, dres, links, lres, pin, pout>>

\* tags of SpecEntries' requests: absent, an array, a JSON string, a
\* comma-separated string, a number
EntryTagInputs ==
  {Undefined, Arr(<<Str(<<"x">>)>>), Str(<<"[", QUOTE, "x", QUOTE, "]">>),
   Str(<<"x", ",">>), Num(<<"1">>)}

\* imagePath of SpecEntries' creates: an absolute path, and a relative one
\* written with a backslash
EntryImagePaths == {Str(<<"/", "a">>), Str(<<"u", BSLASH, "b">>)}

TitleNew == Str(<<"n", "e", "w">>)

NextEntries ==
  \/ \E imagePath \in EntryImagePaths, tags \in EntryTagInputs, stored \in BOOLEAN :
        ArsipediaCreate(Str(<<"1">>), imagePath, tags, stored)
  \/ \E id \in EntryIds : ArsipediaGetById(id)
  \/ \E id \in EntryIds, title \in {Undefined, TitleNew}, tags \in EntryTagInputs :
        ArsipediaUpdate(id, title, tags, Undefined)
  \/ \E id \in EntryIds, threw \in BOOLEAN : ArsipediaDelete(id, threw)
  \/ ArsipediaRespond

SpecEntries == InitArsipedia /\ [][NextEntries]_vars

\* C12: for an id with no stored entry, getById, update and delete fail with
\* statusCode 404 and message 'Arsipedia entry not found'; the repository's
\* update and delete are not called, no file is looked up or unlinked, and the
\* table and the files are as before.
C12_MissingEntryNotFound ==
  (ares.op \in {"getById", "update", "delete"} /\ ares.before[ares.id] = NoRow) =>
    /\ ares.err = HttpError(404, "Arsipedia entry not found")
    /\ ares.calls = <<[fn |-> "getById", arg |-> ares.id]>>
    /\ entries = ares.before
    /\ disk = ares.diskBefore

\* delete was refused for an id without entry while another entry and its
\* file were there
C12_Witness ==
  /\ ares.op = "delete"
  /\ ares.before[ares.id] = NoRow
  /\ ares.err.statusCode = 404
  /\ disk # {}
  /\ \E e \in EntryIds : entries[e] # NoRow

\* C13: update(id, data) on an existing entry reads the entry by id, then calls
\* the repository's update with that id and exactly the fields of data, no
\* field added or changed, and returns the repository's result.
C13_UpdateForwardsData ==
  (ares.op = "update" /\ ares.before[ares.id] # NoRow) =>
    /\ ares.err = NoError
    /\ ares.calls = <<[fn |-> "getById", arg |-> ares.id],
                      [fn |-> "update", id |-> ares.id, arg |-> ares.data]>>
    /\ ares.result = entries[ares.id]

\* the file that the entry's imagePath names
ImageFile(entry) == PathResolve(ReplaceBackslashes(entry.imagePath.s))

\* C14: delete on an existing entry raises no error and ends with one call of
\* the repository's delete for that id, whose result it returns, also when the
\* file that imagePath names does not exist (no unlink is tried) and when
\* unlinkSync raises an error (the file stays).
C14_DeleteSurvivesFileErrors ==
  (ares.op = "delete" /\ ares.before[ares.id] # NoRow) =>
    LET file == ImageFile(ares.before[ares.id])
        unlinks == CallsTo(ares.calls, "unlinkSync")
    IN /\ ares.err = NoError
       /\ Len(CallsTo(ares.calls, "delete")) = 1
       /\ ares.calls[Len(ares.calls)] = [fn |-> "delete", arg |-> ares.id]
       /\ ares.result = ares.before[ares.id]
       /\ entries[ares.id] = NoRow
       /\ file \notin ares.diskBefore => (unlinks = <<>> /\ disk = ares.diskBefore)
       /\ file \in ares.diskBefore =>
            /\ Len(unlinks) = 1
            /\ unlinks[1].arg = file
            /\ disk = IF unlinks[1].threw THEN ares.diskBefore
                      ELSE ares.diskBefore \ {file}

\* an entry was deleted although unlinking its image, stored under a path
\* written with a backslash, raised an error
C14_Witness ==
  /\ ares.op = "delete"
  /\ ares.before[ares.id] # NoRow
  /\ ares.before[ares.id].imagePath = Str(<<"u", BSLASH, "b">>)
  /\ \E i \in 1..Len(ares.calls) :
        ares.calls[i].fn = "unlinkSync" /\ ares.calls[i].threw
  /\ entries[ares.id] = NoRow
  /\ <<"/", "w", "/", "u", "/", "b">> \in disk

\* the text is JSON for an array whose elements are all strings
IsJsonArrayOfStrings(v) ==
  /\ v.t = "str"
  /\ LET parsed == JSONParse(v.s)
     IN /\ parsed.ok
        /\ parsed.val.t = "arr"
        /\ \A i \in 1..Len(parsed.val.a) : parsed.val.a[i].t = "str"

\* C20: whatever tags the create and update calls carried (an array, a JSON
\* string, a comma-separated string, a number, nothing), the tags of every stored
\* entry is a string that parses as a JSON array of strings.
C20_StoredTagsAreJsonArrays ==
  \A e \in EntryIds : entries[e] # NoRow => IsJsonArrayOfStrings(entries[e].tags)

\* an update that carried a number as tags has reset the tags of an entry
\* created with the tag x
C20_Witness ==
  /\ ares.op = "update"
  /\ ares.tags = Num(<<"1">>)
  /\ ares.before[ares.id] # NoRow
  /\ ares.before[ares.id].tags = Str(<<"[", QUOTE, "x", QUOTE, "]">>)
  /\ entries[ares.id].tags = Str(<<"[", "]">>)

-----------------------------------------------------------------------------
(* Claims on the design service's handling of stored files (SpecDesign).   *)

\* the delete was allowed: the owner's deleteDesign, or adminDeleteDesign
DeleteAllowed ==
  /\ dres.op \in {"deleteDesign", "adminDeleteDesign"}
  /\ dres.design # NoRow
  /\ dres.op = "deleteDesign" => dres.design.architectId = dres.architectId

FotoFields == {"foto_bangunan", "foto_denah"}

\* the data the last call handed to the repository's updateDesign
UpdateCallData == dres.calls[Len(dres.calls)].data

\* path is the argument of one of the deleteFile calls
PassedToDeleteFile(path) ==
  \E j \in 1..Len(dres.calls) : dres.calls[j] = [fn |-> "deleteFile", arg |-> path]

\* C16: an updateDesign by the owner that passes validation treats each photo
\* field on its own: with a non-empty batch of new files for the field, every
\* path stored in it before is passed to deleteFile and the stored field
\* becomes the JSON array of exactly the new files' paths; with no new file
\* for the field, none of its paths is passed to deleteFile and the field is
\* not written (it is absent from the repository's data and keeps its value)
C16_UpdateReplacesPhotosPerField ==
  (/\ dres.op = "updateDesign" /\ dres.design # NoRow
   /\ dres.design.architectId = dres.architectId
   /\ dres.err # "ValidationError")
  => /\ dres.err = "none"
     /\ Called(dres.calls, "updateDesign")
     /\ \A f \in FotoFields :
          LET old == StoredPaths(dres.design[f])
              new == dres.files[f]
              now == designs[dres.designId][f]
          IN IF Len(new) > 0
             THEN /\ \A i \in 1..Len(old) : PassedToDeleteFile(old[i])
                  /\ UpdateCallData[f] = now
                  /\ JSONParse(now.s).ok
                  /\ StoredPaths(now) = [i \in 1..Len(new) |-> new[i].path]
             ELSE /\ \A i \in 1..Len(old) : ~PassedToDeleteFile(old[i])
                  /\ UpdateCallData[f] = Undefined
                  /\ now = dres.design[f]

\* the owner replaced the stored foto_bangunan file by a new one and sent no
\* foto_denah: the old file went to deleteFile and the row holds the new path
C16_Witness ==
  /\ dres.op = "updateDesign" /\ dres.design # NoRow
  /\ dres.design.architectId = dres.architectId
  /\ dres.err = "none"
  /\ Len(StoredPaths(dres.design.foto_bangunan)) > 0
  /\ Len(dres.files.foto_bangunan) > 0 /\ Len(dres.files.foto_denah) = 0
  /\ PassedToDeleteFile(StoredPaths(dres.design.foto_bangunan)[1])
  /\ StoredPaths(designs[dres.designId].foto_bangunan) = <<dres.files.foto_bangunan[1].path>>
  /\ designs[dres.designId].foto_denah = dres.design.foto_denah

\* a title that is present and invalid: empty, blank, or over the limit
InvalidTitle(title) ==
  /\ title.t = "str"
  /\ \/ Trim(title.s) = <<>>
     \/ Len(title.s) > MaxTitleLen

\* C17: an updateDesign by the owner with a title that is present and invalid
\* (empty, whitespace only, or longer than 200 characters) fails with
\* ValidationError before any mutation: no file is passed to deleteFile, the
\* repository's updateDesign is not called and the row is unchanged, even when
\* new files come with the request
C17_InvalidTitleRejectedBeforeMutation ==
  (/\ dres.op = "updateDesign" /\ dres.design # NoRow
   /\ dres.design.architectId = dres.architectId
   /\ InvalidTitle(dres.title))
  => /\ dres.err = "ValidationError"
     /\ dres.calls = <<>>
     /\ designs[dres.designId] = dres.design

\* the paths the upload middleware can have handed out
UploadPaths == {Str(PathOf(n)) : n \in 1..MaxUploads}

\* C19: after any createDesign, updateDesign and adminUpdateDesign calls (and
\* deletes), foto_bangunan and foto_denah of every stored design are strings
\* that parse as a JSON array, possibly empty, of uploaded files' paths; a
\* createDesign without files stores '[]' in both
C19_StoredPhotosAreJsonArrays ==
  /\ \A d \in DesignIds :
       designs[d] # NoRow
       => \A f \in FotoFields :
            /\ IsJsonArrayOfStrings(designs[d][f])
            /\ \A i \in 1..Len(StoredPaths(designs[d][f])) :
                 StoredPaths(designs[d][f])[i] \in UploadPaths
  /\ (/\ dres.op = "createDesign" /\ dres.err = "none"
      /\ dres.files = [foto_bangunan |-> <<>>, foto_denah |-> <<>>])
     => /\ designs[dres.designId].foto_bangunan = Str(<<"[", "]">>)
        /\ designs[dres.designId].foto_denah = Str(<<"[", "]">>)

\* a design created without files, holding '[]' in both fields, got a
\* foto_bangunan file through adminUpdateDesign: the field now parses to the
\* one new path and foto_denah is still '[]'
C19_Witness ==
  /\ dres.op = "adminUpdateDesign" /\ dres.err = "none"
  /\ dres.design # NoRow
  /\ dres.design.foto_bangunan = Str(<<"[", "]">>)
  /\ dres.design.foto_denah = Str(<<"[", "]">>)
  /\ Len(dres.files.foto_bangunan) = 1
  /\ StoredPaths(designs[dres.designId].foto_bangunan) = <<dres.files.foto_bangunan[1].path>>
  /\ designs[dres.designId].foto_denah = Str(<<"[", "]">>)

-----------------------------------------------------------------------------
(* SpecLinkStore: the four operations that write portfolio links, called   *)
(* by existing architects with urls that are absent, empty or well-formed. *)

StoreUrlInputs == {Undefined, Str(<<>>), Str(UrlA), Str(UrlUpperA), Str(UrlB)}

NextLinkStore ==
  \/ \E a \in Architects, url \in StoreUrlInputs : CreatePortfolioLink(a, url)
  \/ \E l \in LinkIds, a \in Architects, url \in StoreUrlInputs, order \in OrderInputs :
        UpdatePortfolioLink(l, a, url, order)
  \/ \E a \in Architects, ids \in SeqsUpTo(LinkIds, MaxOrderedIds) :
        ReorderPortfolioLinks(a, ids)
  \/ \E l \in LinkIds, a \in Architects : DeletePortfolioLink(l, a)
  \/ LinkRespond

SpecLinkStore == InitLinks /\ [][NextLinkStore]_vars


\* C18: after any completed createPortfolioLink, updatePortfolioLink,
\* reorderPortfolioLinks and deletePortfolioLink calls, no two stored links
\* of the same architect hold the same url, compared exactly (two urls that
\* differ in case only are different)
C18_UrlsUniquePerArchitect ==
  \A l \in LinkIds, m \in LinkIds :
    (/\ l # m /\ links[l] # NoRow /\ links[m] # NoRow
     /\ links[l].architectId = links[m].architectId)
    => links[l].url # links[m].url

\* an architect holds two links whose urls differ in case only, and an update
\* that would have given one of them the other's url was refused
C18_Witness ==
  /\ lres.op = "updatePortfolioLink" /\ lres.err = "ConflictError"
  /\ \E l \in LinkIds, m \in LinkIds :
       /\ l # m /\ links[l] # NoRow /\ links[m] # NoRow
       /\ links[l].architectId = lres.architectId
       /\ links[m].architectId = lres.architectId
       /\ lres.linkId = l /\ lres.url = links[m].url
       /\ links[l].url = Str(UrlA) /\ links[m].url = Str(UrlUpperA)
  /\ links = lres.before

-----------------------------------------------------------------------------
(* SpecEntryAdmins: create and update of arsipedia entries, called with    *)
(* the ids of admins that exist and of one that does not.                  *)

NextEntryAdmins ==
  \/ \E adminId \in AdminIdInputs, tags \in {Undefined, Arr(<<Str(<<"x">>)>>)} :
        ArsipediaCreate(adminId, Str(<<"/", "a">>), tags, TRUE)
  \/ \E id \in EntryIds, title \in {Undefined, TitleNew}, adminId \in AdminIdInputs :
        ArsipediaUpdate(id, title, Undefined, adminId)
  \/ ArsipediaRespond

SpecEntryAdmins == InitArsipedia /\ [][NextEntryAdmins]_vars

\* C21: after any create and update calls, with the set of admins fixed, the
\* adminId of every stored entry is the id of an existing admin, also after
\* an update whose data carries an adminId
C21_AdminIdReferencesAdmin ==
  \A id \in EntryIds :
    entries[id] # NoRow => isAdminExist(entries[id].adminId) # Null

-----------------------------------------------------------------------------
(* Claims on the order and the ownership of portfolio links.               *)

\* the links architectId held before the last call
OwnBefore == LinksOf(lres.before, lres.architectId)

C23_LinkWrittenByOwnerOnly ==
  (/\ lres.op \in {"updatePortfolioLink", "deletePortfolioLink"}
   /\ lres.before[lres.linkId] # NoRow)
  => /\ lres.before[lres.linkId].architectId # lres.architectId
        => /\ lres.err = "AuthorizationError"
           /\ lres.calls = <<>>
           /\ links = lres.before
     /\ links # lres.before
        => lres.before[lres.linkId].architectId = lres.architectId

\* another architect asked to give an existing link a well-formed url that
\* no link holds, and was refused
C23_Witness ==
  /\ lres.op = "updatePortfolioLink"
  /\ lres.before[lres.linkId] # NoRow
  /\ lres.before[lres.linkId].architectId # lres.architectId
  /\ lres.url = Str(UrlB)
  /\ \A l \in LinkIds : links[l] # NoRow => links[l].url # Str(UrlB)
  /\ lres.err = "AuthorizationError"
  /\ links = lres.before

-----------------------------------------------------------------------------
(* SpecSearch: the public search of designs, a query over the design       *)
(* table, applied to enumerated tables and query strings: through          *)
(* DesignService.searchDesigns and through DesignController.searchDesigns. *)

MaxSearchRows == 2

LowerLetters == <<"a", "b", "c", "k">>
UpperLetters == <<"A", "B", "C", "K">>

\* the lower-case form of a character, as mode: "insensitive" compares
ToLower(c) ==
  IF \E n \in 1..Len(UpperLetters) : UpperLetters[n] = c
  THEN LowerLetters[CHOOSE n \in 1..Len(UpperLetters) : UpperLetters[n] = c]
  ELSE c

\* { contains: keyword, mode: "insensitive" } on a column that may be null
ContainsInsensitive(column, keyword) ==
  /\ column.t = "str"
  /\ \E i \in 0..(Len(column.s) - Len(keyword)) :
       \A j \in 1..Len(keyword) : ToLower(column.s[i + j]) = ToLower(keyword[j])

\* { equals: value, mode: "insensitive" } on a column that may be null
EqualsInsensitive(column, value) ==
  /\ column.t = "str"
  /\ Len(column.s) = Len(value)
  /\ \A j \in 1..Len(value) : ToLower(column.s[j]) = ToLower(value[j])

NonBlank(v) == Truthy(v) /\ Trim(ToStr(v)) # <<>>

\* the slip of searching for the terms as they came, blanks included
searchWhere_NoTrim(q, kategori) ==
  (IF NonBlank(q) THEN <<[on |-> "q", keyword |-> ToStr(q)]>> ELSE <<>>)
  \o (IF NonBlank(kategori)
        THEN <<[on |-> "kategori", keyword |-> ToStr(kategori)]>> ELSE <<>>)

\* the AND list searchPublic builds, as the conditions a row has to meet
searchWhere(q, kategori) ==
  (IF NonBlank(q) THEN <<[on |-> "q", keyword |-> Trim(ToStr(q))]>> ELSE <<>>)
  \o (IF NonBlank(kategori)
        THEN <<[on |-> "kategori", keyword |-> Trim(ToStr(kategori))]>> ELSE <<>>)

\* one condition of the AND list on one row
MeetsCondition(row, cond) ==
  IF cond.on = "q"
  THEN \/ ContainsInsensitive(row.title, cond.keyword)
       \/ ContainsInsensitive(row.description, cond.keyword)
  ELSE EqualsInsensitive(row.kategori, cond.keyword)

MeetsWhere(row, where) == \A n \in 1..Len(where) : MeetsCondition(row, where[n])

\* rows are kept in the order of their creation
RECURSIVE NewestFirst(_)
NewestFirst(rows) ==
  IF rows = <<>> THEN <<>> ELSE NewestFirst(Tail(rows)) \o <<Head(rows)>>

RECURSIVE RowsWhere(_, _)
RowsWhere(rows, where) ==
  IF rows = <<>> THEN <<>>
  ELSE (IF MeetsWhere(Head(rows), where) THEN <<Head(rows)>> ELSE <<>>)
       \o RowsWhere(Tail(rows), where)

\* prisma.design.findMany({ where, skip, take, orderBy: { createdAt: "desc" } })
findMany(rows, where, skip, take) ==
  LET found == NewestFirst(RowsWhere(rows, where))
      last == IF skip + take < Len(found) THEN skip + take ELSE Len(found)
  IN SubSeq(found, skip + 1, last)

CeilDiv(a, b) == (a + b - 1) \div b

Paged(rows, where, page, limit) ==
  [data |-> findMany(rows, where, (page - 1) * limit, limit),
   pagination |-> [page |-> page, limit |-> limit,
                   total |-> Len(RowsWhere(rows, where)),
                   totalPages |-> CeilDiv(Len(RowsWhere(rows, where)), limit)]]

\* DesignRepository.searchPublic; page and limit are numbers here
searchPublic(rows, q, kategori, page, limit) ==
  Paged(rows, searchWhere(q, kategori), page, limit)

\* DesignRepository.findAllPublic: findWithPagination without a filter
findAllPublic(rows, page, limit) == Paged(rows, <<>>, page, limit)

\* a parameter's default value takes the place of undefined only
OrDefault(v, default) == IF v = Undefined THEN default ELSE v

DefaultPage == Num(<<"1">>)
DefaultLimit == Num(<<"1", "2">>)

FormattedValue(design) == formatDesignResponse(design).val

\* DesignService.getAllDesigns({ page, limit })
getAllDesigns(rows, options) ==
  LET page == OrDefault(options.page, DefaultPage)
      limit == OrDefault(options.limit, DefaultLimit)
      result == findAllPublic(rows, parseInt(page).n, parseInt(limit).n)
  IN [data |-> MapSeq(FormattedValue, result.data), pagination |-> result.pagination]

\* reading a property of the first argument: a string has none of the
\* properties q, kategori, city, page and limit
Property(arg, name) == IF arg.t = "obj" THEN arg[name] ELSE Undefined

\* (q && q.trim()) || (kategori && kategori.trim()) || (city && city.trim())
searchHasAny(q, kategori, city) == NonBlank(q) \/ NonBlank(kategori) \/ NonBlank(city)

\* DesignService.searchDesigns({ q, kategori, city, page = 1, limit = 12 } = {})
\* called with arg as its first argument
searchDesigns(rows, arg) ==
  LET first == OrDefault(arg, [t |-> "obj", q |-> Undefined, kategori |-> Undefined,
                               city |-> Undefined, page |-> Undefined, limit |-> Undefined])
      q == Property(first, "q")
      kategori == Property(first, "kategori")
      city == Property(first, "city")
      page == OrDefault(Property(first, "page"), DefaultPage)
      limit == OrDefault(Property(first, "limit"), DefaultLimit)
  IN IF ~searchHasAny(q, kategori, city)
     THEN getAllDesigns(rows, [page |-> page, limit |-> limit])
     ELSE LET result == searchPublic(rows, q, kategori, parseInt(page).n, parseInt(limit).n)
          IN [data |-> MapSeq(FormattedValue, result.data),
              pagination |-> result.pagination]

\* DesignController.searchDesigns: designService.searchDesigns(q, { page, limit })
\* and the success response with result.data
controllerSearchDesigns(rows, query) ==
  LET result == searchDesigns(rows, query.q)
  IN [data |-> result.data, message |-> "Search completed successfully", status |-> 200]

\* stored designs to search in; the files do not matter to the search
DesignSample(title, description, kategori) ==
  [title |-> title, description |-> description, kategori |-> kategori]

DesignSamples ==
  {DesignSample(Str(<<"a", "b">>), Null, Str(<<"k">>)),
   DesignSample(Str(<<"B">>), Str(<<"c", "A">>), Str(<<"K">>)),
   DesignSample(Str(<<"c">>), Str(<<"a", " ", "b">>), Null),
   DesignSample(Str(<<"c">>), Null, Str(<<" ", "k">>))}

\* the rows of the table: the designs in the order of creation, with ids
SearchTable(stored) ==
  [n \in 1..Len(stored) |->
     [id |-> n, architectId |-> "A1", title |-> stored[n].title,
      description |-> stored[n].description, kategori |-> stored[n].kategori,
      foto_bangunan |-> Str(<<"[", "]">>), foto_denah |-> Str(<<"[", "]">>)]]

QInputs == {Undefined, Str(<<>>), Str(<<" ">>), Str(<<"a">>), Str(<<" ", "A", " ">>),
            Str(<<"b">>)}
SearchKategoriInputs == {Undefined, Str(<<" ">>), Str(<<"k">>), Str(<<"K", " ">>)}
CityInputs == {Undefined, Str(<<" ">>), Str(<<"c">>)}
PageInputs == {Undefined, Str(<<"1">>), Str(<<"2">>)}
LimitInputs == {Undefined, Str(<<"1">>)}

InitSearch ==
  /\ InitTables
  /\ \E stored \in SeqsUpTo(DesignSamples, MaxSearchRows), q \in QInputs,
        kategori \in SearchKategoriInputs, city \in CityInputs,
        page \in PageInputs, limit \in LimitInputs :
       pin = [rows |-> SearchTable(stored),
              query |-> [t |-> "obj", q |-> q, kategori |-> kategori, city |-> city,
                         page |-> page, limit |-> limit]]
  /\ pout = Idle

ApplySearchDesigns ==
  /\ pout = Idle
  /\ pout' = [via |-> "service", result |-> searchDesigns(pin.rows, pin.query)]
  /\ UNCHANGED <<tableVars, pin>>

ApplyControllerSearchDesigns ==
  /\ pout = Idle
  /\ pout' = [via |-> "controller", result |-> controllerSearchDesigns(pin.rows, pin.query)]
  /\ UNCHANGED <<tableVars, pin>>

NextSearch == ApplySearchDesigns \/ ApplyControllerSearchDesigns

SpecSearch == InitSearch /\ [][NextSearch]_vars

\* the numbers a query's page and limit stand for
PageOf(query) == IF query.page = Undefined THEN 1 ELSE parseInt(query.page).n
LimitOf(query) == IF query.limit = Undefined THEN 12 ELSE parseInt(query.limit).n

\* the row satisfies every non-blank term of the query: its title or its
\* description contains q, and its kategori equals kategori, both trimmed
\* and without regard to case
Satisfies(row, query) ==
  /\ NonBlank(query.q)
     => \/ ContainsInsensitive(row.title, Trim(ToStr(query.q)))
        \/ ContainsInsensitive(row.description, Trim(ToStr(query.q)))
  /\ NonBlank(query.kategori)
     => EqualsInsensitive(row.kategori, Trim(ToStr(query.kategori)))

\* data is the requested page of the rows satisfying the query, newest first
IsPageOfSatisfying(data, rows, query) ==
  LET ids == {n \in 1..Len(rows) : Satisfies(rows[n], query)}
      skip == (PageOf(query) - 1) * LimitOf(query)
      rest == IF Cardinality(ids) > skip THEN Cardinality(ids) - skip ELSE 0
  IN /\ Len(data) = IF rest < LimitOf(query) THEN rest ELSE LimitOf(query)
     /\ \A i \in 1..Len(data) :
          /\ data[i].id \in ids
          /\ data[i] = formatDesignResponse(rows[data[i].id]).val
          /\ Cardinality({n \in ids : n > data[i].id}) = skip + i - 1

\* C24: searchDesigns({q, kategori, city, page, limit}) returns what
\* getAllDesigns({page, limit}) returns when q, kategori and city are all
\* absent, empty or blank; otherwise its data is the requested page, newest
\* first, of exactly the designs that satisfy every non-blank term among q
\* (contained in title or description) and kategori (equal), and its total
\* counts those designs
C24_SearchFiltersConjunctively ==
  (pout # Idle /\ pout.via = "service")
  => LET query == pin.query IN
     IF ~NonBlank(query.q) /\ ~NonBlank(query.kategori) /\ ~NonBlank(query.city)
     THEN pout.result = getAllDesigns(pin.rows, [page |-> query.page, limit |-> query.limit])
     ELSE /\ IsPageOfSatisfying(pout.result.data, pin.rows, query)
          /\ pout.result.pagination.total
             = Cardinality({n \in 1..Len(pin.rows) : Satisfies(pin.rows[n], query)})

\* both terms are given with blanks around them and in another case than
\* stored; of two designs that contain q, one has the kategori, and it alone
\* is returned
C24_Witness ==
  /\ pout # Idle /\ pout.via = "service"
  /\ pin.query.q = Str(<<" ", "A", " ">>)
  /\ pin.query.kategori = Str(<<"K", " ">>)
  /\ Len(pin.rows) = 2
  /\ \A n \in 1..2 : \/ ContainsInsensitive(pin.rows[n].title, <<"a">>)
                       \/ ContainsInsensitive(pin.rows[n].description, <<"a">>)
  /\ pin.rows[1].kategori = Str(<<"k">>) /\ pin.rows[2].kategori = Null
  /\ Len(pout.result.data) = 1
  /\ pout.result.data[1].id = 1

\* C26: a search request with a non-blank q handled by
\* DesignController.searchDesigns is answered with the requested page of the
\* designs whose title or description contains q, not with the unfiltered
\* list of all designs
C26_ControllerSearchUsesQ ==
  (pout # Idle /\ pout.via = "controller" /\ NonBlank(pin.query.q))
  => IsPageOfSatisfying(pout.result.data, pin.rows,
                        [pin.query EXCEPT !.kategori = Undefined])

-----------------------------------------------------------------------------
(* SpecController: one run of a controller handler, given the request and  *)
(* the outcome of the service call it makes.                               *)

\* a handler: the ResponseFormatter function it answers with, what of the
\* service result it sends as data, and its message ("" for result.message)
Handler(controller, name, formatter, data, message) ==
  [controller |-> controller, name |-> name, formatter |-> formatter,
   data |-> data, message |-> message]

DesignHandlers ==
  {Handler("design", "createDesign", "created", "result", "Design created successfully"),
   Handler("design", "getDesignById", "success", "result", "Design retrieved successfully"),
   Handler("design", "getMyDesigns", "success", "result.data", "Designs retrieved successfully"),
   Handler("design", "getAllDesigns", "success", "result.data", "Designs retrieved successfully"),
   Handler("design", "searchDesigns", "success", "result.data", "Search completed successfully"),
   Handler("design", "getDesignsByKategori", "success", "result.data",
           "Designs retrieved successfully"),
   Handler("design", "getLatestDesigns", "success", "result",
           "Latest designs retrieved successfully"),
   Handler("design", "updateDesign", "success", "result", "Design updated successfully"),
   Handler("design", "deleteDesign", "success", "null", ""),
   Handler("design", "getStatistics", "success", "result", "Statistics retrieved successfully")}

PortfolioLinkHandlers ==
  {Handler("link", "createPortfolioLink", "created", "result",
           "Portfolio link created successfully"),
   Handler("link", "getPortfolioLinkById", "success", "result",
           "Portfolio link retrieved successfully"),
   Handler("link", "getMyPortfolioLinks", "success", "result",
           "Portfolio links retrieved successfully"),
   Handler("link", "updatePortfolioLink", "success", "result",
           "Portfolio link updated successfully"),
   Handler("link", "reorderPortfolioLinks", "success", "result",
           "Portfolio links reordered successfully"),
   Handler("link", "deletePortfolioLink", "success", "null", "")}

ArsipediaHandlers ==
  {Handler("arsipedia", "create", "success", "result", "Arsipedia created"),
   Handler("arsipedia", "getAll", "success", "result", "All Arsipedia fetched"),
   Handler("arsipedia", "getById", "success", "result", "Arsipedia details fetched"),
   Handler("arsipedia", "update", "success", "result", "Arsipedia updated"),
   Handler("arsipedia", "delete", "success", "result", "Arsipedia deleted")}

Handlers == DesignHandlers \cup PortfolioLinkHandlers \cup ArsipediaHandlers

\* !orderedIds || !Array.isArray(orderedIds) in reorderPortfolioLinks
reorderBadRequest(handler, req) ==
  /\ handler.controller = "link" /\ handler.name = "reorderPortfolioLinks"
  /\ (~Truthy(req.orderedIds) \/ req.orderedIds.t # "arr")

\* orderBy ? JSON.parse(orderBy) : undefined in getMyDesigns and getAllDesigns
\* throws a SyntaxError on text that is not JSON
orderByThrows(handler, req) ==
  /\ handler.controller = "design" /\ handler.name \in {"getMyDesigns", "getAllDesigns"}
  /\ Truthy(req.orderBy) /\ ~JSONParse(ToStr(req.orderBy)).ok

\* the slip of an empty catch block
catchError_Swallowed(error) == <<>>

\* catch (error) { next(error); }
catchError(error) == <<error>>

\* the data argument of the response
responseData(handler, result) ==
  CASE handler.data = "result" -> result
    [] handler.data = "result.data" -> result.data
    [] handler.data = "null" -> Null

responseMessage(handler, result) ==
  IF handler.message = "" THEN result.message ELSE handler.message

\* one run of the handler: the number of service calls, the errors handed to
\* next and the responses sent
runHandler(handler, req, outcome) ==
  IF reorderBadRequest(handler, req)
  THEN [service |-> 0, next |-> <<>>,
        sent |-> <<[formatter |-> "badRequest", data |-> Null,
                    message |-> "orderedIds must be an array of portfolio link IDs"]>>]
  ELSE IF orderByThrows(handler, req)
  THEN [service |-> 0, next |-> catchError("SyntaxError"), sent |-> <<>>]
  ELSE IF outcome.kind = "reject"
  THEN [service |-> 1, next |-> catchError(outcome.error), sent |-> <<>>]
  ELSE [service |-> 1, next |-> <<>>,
        sent |-> <<[formatter |-> handler.formatter,
                    data |-> responseData(handler, outcome.result),
                    message |-> responseMessage(handler, outcome.result)]>>]

\* what the mocked service call does: resolves with a result or rejects
ServiceResult ==
  [data |-> Arr(<<Str(<<"a">>)>>), message |-> "done", pagination |-> Num(<<"1">>)]

ServiceOutcomes ==
  {[kind |-> "resolve", result |-> ServiceResult, error |-> "none"],
   [kind |-> "reject", result |-> ServiceResult, error |-> "boom"],
   [kind |-> "reject", result |-> ServiceResult, error |-> "NotFoundError"]}

OrderedIdsInputs == {Undefined, Str(<<"1">>), Arr(<<>>), Arr(<<Num(<<"1">>)>>)}
OrderByInputs == {Undefined, Str(<<"[", "]">>), Str(<<"[">>)}

InitController ==
  /\ InitTables
  /\ \E handler \in Handlers, outcome \in ServiceOutcomes,
        orderedIds \in OrderedIdsInputs, orderBy \in OrderByInputs :
       pin = [handler |-> handler, outcome |-> outcome,
              req |-> [orderedIds |-> orderedIds, orderBy |-> orderBy]]
  /\ pout = Idle

RunHandler ==
  /\ pout = Idle
  /\ pout' = runHandler(pin.handler, pin.req, pin.outcome)
  /\ UNCHANGED <<tableVars, pin>>

NextController == RunHandler

SpecController == InitController /\ [][NextController]_vars

\* the handler ended by handing error to next, without a response
EndedWithNext(error) == pout.next = <<error>> /\ pout.sent = <<>>

\* the handler ended with one success response made from the service result
\* (the result, its data, or its message), without calling next
EndedWithSuccess ==
  /\ pout.next = <<>> /\ Len(pout.sent) = 1
  /\ pout.sent[1].formatter \in {"success", "created"}
  /\ \/ pout.sent[1].data = pin.outcome.result
     \/ pout.sent[1].data = pin.outcome.result.data
     \/ pout.sent[1].message = pin.outcome.result.message

\* C25 as it was stated: every run of a handler ends either with next called
\* once with the error the service call rejected with and no response, or
\* with one success response carrying the resolved service result and no
\* call of next
C25_HandlerEndsInOneOfTwoWays ==
  pout # Idle
  => \/ /\ pout.service = 1 /\ pin.outcome.kind = "reject"
        /\ EndedWithNext(pin.outcome.error)
     \/ /\ pout.service = 1 /\ pin.outcome.kind = "resolve"
        /\ EndedWithSuccess

\* C25: a handler that reaches its service call ends in one of two ways: the
\* call rejects with e, and next is called once with e and nothing is sent; or
\* it resolves, and one success response made from the result is sent and
\* next is not called. A handler ends before the service call in two cases:
\* reorderPortfolioLinks sends one 400 response when orderedIds is not an
\* array, and getMyDesigns and getAllDesigns hand the SyntaxError of an
\* orderBy that is not JSON to next.
C25_HandlerForwardsErrorOrResponds ==
  pout # Idle
  => /\ Len(pout.next) + Len(pout.sent) = 1
     /\ pout.service = 1
        => IF pin.outcome.kind = "reject"
           THEN EndedWithNext(pin.outcome.error)
           ELSE EndedWithSuccess
     /\ pout.service = 0
        => \/ /\ pin.handler.name = "reorderPortfolioLinks"
              /\ pin.req.orderedIds.t # "arr"
              /\ pout.next = <<>> /\ pout.sent[1].formatter = "badRequest"
           \/ /\ pin.handler.name \in {"getMyDesigns", "getAllDesigns"}
              /\ pin.req.orderBy = Str(<<"[">>)
              /\ EndedWithNext("SyntaxError")

\* createDesign's service call rejected, and next got the error while
\* nothing was sent
C25_Witness ==
  /\ pout # Idle
  /\ pin.handler.controller = "design" /\ pin.handler.name = "createDesign"
  /\ pin.outcome.kind = "reject" /\ pin.outcome.error = "boom"
  /\ pout.service = 1
  /\ pout.next = <<"boom">> /\ pout.sent = <<>>

-----------------------------------------------------------------------------
(* Claims comparing and following the design service's writes (SpecDesign). *)

\* what adminUpdateDesign does with the arguments and the row of the last call
AdminOutcome ==
  adminUpdateDesign(dres.design, dres.designId,
                    [title |-> dres.title, kategori |-> Undefined], dres.files)

\* C27: for an existing design and its owner, updateDesign(designId, ownerId,
\* updateData, files) and adminUpdateDesign(designId, updateData, files) have
\* the same outcome for every updateData and files, the empty title included:
\* the same error, or the same files passed to deleteFile and the same data
\* written to the row
C27_OwnerAndAdminUpdateAgree ==
  (/\ dres.op = "updateDesign" /\ dres.design # NoRow
   /\ dres.design.architectId = dres.architectId)
  => /\ AdminOutcome.err = dres.err
     /\ AdminOutcome.calls = dres.calls

-----------------------------------------------------------------------------
(* SpecDesignFaults: SpecDesign with repository writes that fail. The      *)
(* update and the delete of a row are awaited after the old files were     *)
(* passed to deleteFile, and the error of a failed write is thrown on.     *)

\* updateDesign by a caller whose designRepository.updateDesign rejects
UpdateDesignWriteFails(designId, architectId, nb, nd) ==
  LET files == [foto_bangunan |-> Uploaded(nextFile, nb),
                foto_denah |-> Uploaded(nextFile + nb, nd)]
      updateData == [title |-> Undefined, kategori |-> Undefined]
      design == designs[designId]
      out == updateDesign(design, designId, architectId, updateData, files)
      uploaded == disk \cup PathsOf(files.foto_bangunan) \cup PathsOf(files.foto_denah)
  IN /\ dres = NoCall
     /\ Called(out.calls, "updateDesign")
     /\ nextFile + nb + nd <= MaxUploads
     /\ nextFile' = nextFile + nb + nd
     /\ designs' = designs
     /\ \E kept \in SUBSET DeletedPaths(out.calls) :
          /\ disk' = FilesAfter(uploaded, out.calls, kept)
          /\ dres' = [op |-> "updateDesign", designId |-> designId,
                      architectId |-> architectId,
                      title |-> Undefined, files |-> files, design |-> design,
                      err |-> "DatabaseError", errors |-> <<>>, calls |-> out.calls,
                      failed |-> kept]
     /\ UNCHANGED <<links, lres, entries, ares, pin, pout>>

\* deleteDesign by a caller whose designRepository.deleteDesign rejects
DeleteDesignWriteFails(designId, architectId) ==
  LET design == designs[designId]
      out == deleteDesign(design, designId, architectId)
  IN /\ dres = NoCall
     /\ Called(out.calls, "deleteDesign")
     /\ designs' = designs
     /\ \E kept \in SUBSET DeletedPaths(out.calls) :
          /\ disk' = FilesAfter(disk, out.calls, kept)
          /\ dres' = [op |-> "deleteDesign", designId |-> designId,
                      architectId |-> architectId,
                      title |-> Undefined,
                      files |-> [foto_bangunan |-> <<>>, foto_denah |-> <<>>],
                      design |-> design,
                      err |-> "DatabaseError", errors |-> <<>>, calls |-> out.calls,
                      failed |-> kept]
     /\ UNCHANGED <<nextFile, links, lres, entries, ares, pin, pout>>

NextDesignFaults ==
  \/ NextDesign
  \/ \E d \in DesignIds, a \in Architects, nb \in 0..MaxFiles, nd \in 0..MaxFiles :
        UpdateDesignWriteFails(d, a, nb, nd)
  \/ \E d \in DesignIds, a \in Architects : DeleteDesignWriteFails(d, a)

SpecDesignFaults == InitDesign /\ [][NextDesignFaults]_vars

\* C28: whenever no design operation is in progress, every path stored in
\* foto_bangunan or foto_denah of a design names a file that is still on
\* disk, that is, one the service has not deleted; also after an
\* updateDesign or deleteDesign whose repository write failed
C28_StoredPathsNameExistingFiles ==
  dres = NoCall
  => \A d \in DesignIds :
       designs[d] # NoRow
       => \A f \in FotoFields :
            \A i \in 1..Len(StoredPaths(designs[d][f])) :
               ToStr(StoredPaths(designs[d][f])[i]) \in disk

-----------------------------------------------------------------------------
\* C29: after every successful reorderPortfolioLinks(architectId,
\* orderedIds) the order values of the architect's links are pairwise
\* distinct, also when orderedIds omits a link, repeats an id or is empty
C29_ReorderLeavesDistinctOrders ==
  (lres # NoCall /\ lres.op = "reorderPortfolioLinks" /\ lres.err = "none")
  => \A l, m \in LinksOf(links, lres.architectId) :
       l # m => links[l].order # links[m].order

-----------------------------------------------------------------------------
(* SpecLinkRace: two createPortfolioLink calls in flight at once. Each call *)
(* awaits its reads (isUrlExists, getNextOrder) and then its write         *)
(* (createForArchitect); the other call may run between the two. pin holds *)
(* the position and the locals of each call.                               *)

Calls == {"first", "second"}

CallIdle == [pc |-> "idle", architectId |-> "", url |-> Undefined,
             data |-> Undefined, err |-> "none", linkId |-> NoId]

RaceUrlInputs == {Undefined, Str(UrlA), Str(UrlB)}

InitLinkRace == InitTables /\ pin = [c \in Calls |-> CallIdle] /\ pout = Idle

\* createPortfolioLink from its start to the resolution of getNextOrder
\* (part_002 lines 25-37), or to the error it throws before that
CreateRead(c, architectId, url) ==
  LET out == createPortfolioLink(links, architectId, [url |-> url]) IN
  /\ pin[c].pc = "idle"
  /\ pin' = [pin EXCEPT ![c] =
               [pc |-> IF out.err = "none" THEN "read" ELSE "done",
                architectId |-> architectId, url |-> url,
                data |-> out.data, err |-> out.err, linkId |-> NoId]]
  /\ UNCHANGED <<designs, disk, nextFile, dres, links, lres, entries, ares, pout>>

\* createForArchitect(architectId, linkData.url, nextOrder) with the
\* nextOrder read before (part_002 lines 40-44)
CreateWrite(c) ==
  /\ pin[c].pc = "read"
  /\ FreeLinkIds # {}
  /\ LET id == CHOOSE l \in FreeLinkIds : \A m \in FreeLinkIds : l <= m
         data == pin[c].data
     IN /\ links' = [links EXCEPT ![id] =
                       [t |-> "link", id |-> id, architectId |-> data.architectId,
                        url |-> data.url, order |-> data.order]]
        /\ pin' = [pin EXCEPT ![c] = [@ EXCEPT !.pc = "done", !.linkId = id]]
  /\ UNCHANGED <<designs, disk, nextFile, dres, lres, entries, ares, pout>>

\* the response is sent, or the error handed to next: the call is over
CreateReturn(c) ==
  /\ pin[c].pc = "done"
  /\ \A d \in Calls : pin[d].pc # "read"
  /\ pin' = [pin EXCEPT ![c] = CallIdle]
  /\ UNCHANGED <<designs, disk, nextFile, dres, links, lres, entries, ares, pout>>

NextLinkRace ==
  \/ \E c \in Calls, a \in ArchitectIds, url \in RaceUrlInputs : CreateRead(c, a, url)
  \/ \E c \in Calls : CreateWrite(c)
  \/ \E c \in Calls : CreateReturn(c)

SpecLinkRace == InitLinkRace /\ [][NextLinkRace]_vars

\* both calls have created a link for the same architect
BothCreated(c, d) ==
  /\ c # d
  /\ pin[c].pc = "done" /\ pin[c].linkId # NoId
  /\ pin[d].pc = "done" /\ pin[d].linkId # NoId
  /\ pin[c].architectId = pin[d].architectId

\* C30: two createPortfolioLink calls for one architect, however their reads
\* and writes interleave, create links with distinct order values, and two
\* calls with the same url do not both create a link
C30_InterleavedCreatesStayDistinct ==
  \A c, d \in Calls :
    BothCreated(c, d)
    => /\ links[pin[c].linkId].order # links[pin[d].linkId].order
       /\ pin[c].url # pin[d].url

====
